---------------------------- MODULE Spec2Model ----------------------------
(***************************************************************************)
(* duckdb-manifold: the adapter that exposes the ManifoldDB collections    *)
(* "nodes" and "edges" as DuckDB table functions (manifold_entities,       *)
(* manifold_edges).  Modelled: the engine cache (scanner/mod.rs), schema   *)
(* discovery (schema.rs and discover_*_schema), the paginated batch scan   *)
(* (scan_*_batch) and the VTab handlers bind / init / func.                *)
(*                                                                         *)
(* The entity scanner and the edge scanner are the same code over two      *)
(* collections; vtab says which of the two table functions a behaviour     *)
(* exercises, and table is the collection that function reads.             *)
(***************************************************************************)
EXTENDS Integers, Sequences, FiniteSets, TLC

(***************************************************************************)
(* Bounds of the model.                                                    *)
(***************************************************************************)
\* Longest byte sequence, string or vector payload rendered (SpecRender).
MaxLen == 3
\* Storage keys are 1..MaxKey (u64 big-endian byte strings: byte order = numeric order).
MaxKey == 3
\* The batch limit func_inner passes to scan_*_batch.  The source sets 1024
\* (scanner/mod.rs:17); the scan is parametric in it and is checked with a small one.
BATCH_SIZE == 2
\* The discovery sample bound.  The source sets 100 (scanner/mod.rs:21).
SCHEMA_SAMPLE_SIZE == 2
\* Produce calls the host makes on one scan invocation.
MaxCalls == 4
\* get_cached_engine calls one thread makes (SpecCache).
MaxAcquires == 2
\* observe_entity / observe_edge calls on one discovery object (SpecSchema).
MaxObserve == 3

Keys == 1..MaxKey
Threads == {"t1", "t2", "t3"}
Paths == {"/db/a", "/db/b"}
\* The path every scan invocation of Spec is bound to.
ScanPath == "/db/a"

VARIABLES
    vtab,        \* "entities" | "edges": the table function under test
    table,       \* the collection it reads: [exists, rows]
    held,        \* the storage engine's open read transactions and cursors
    fetch,       \* SpecBatch: the last scan_*_batch call, its argument and its return
    rendered,    \* SpecRender: the last value rendered, and its text in either scanner
    cache,       \* ENGINE_CACHE: path -> handle
    opened,      \* ghost: path -> set of handles RedbEngine::open returned
    nextHandle,  \* ghost: fresh handle identities
    phase,       \* per scan: "unbound" | "bound" | "ready"
    bindData,    \* per scan: ManifoldEntitiesBindData / ManifoldEdgesBindData (+ ghosts)
    done,        \* per scan: InitData.done
    last_key,    \* per scan: InitData.last_key (<<>> is None, <<k>> is Some(k))
    emitted,     \* ghost, per scan: the keys of the rows delivered so far, in order
    nbatches,    \* ghost, per scan: non-empty batches delivered
    ncalls,      \* ghost, per scan: produce calls made
    failed,      \* ghost, per scan: some produce call returned an error
    modified,    \* ghost, per scan: the collection was written since init
    lastCall,    \* ghost, per scan: what the last bind / produce call did
    prior,       \* ghost, per scan slot: Some(rows of the previous complete scan)
    mutex,       \* SpecCache: holder of the ENGINE_CACHE mutex (<<>> is free)
    poisoned,    \* SpecCache: the mutex is poisoned
    pc,          \* SpecCache: per thread, the statement of get_cached_engine it is at
    arg,         \* SpecCache: per thread, the db_path of its call
    local,       \* SpecCache: per thread, the engine it opened and has not yet inserted
    ret,         \* SpecCache: per thread, the results of its finished calls
    discovery,   \* SpecSchema: the SchemaDiscovery / EdgeSchemaDiscovery object
    observed,    \* SpecSchema ghost: the property maps passed to observe_*
    schemaOut,   \* SpecSchema: what finalize returned (<<>> before)
    discovered   \* SpecDiscover: per run, what discover_*_schema returned

scanVars == <<phase, bindData, done, last_key, emitted, nbatches, ncalls, failed,
              modified, lastCall, prior>>
storeVars == <<vtab, table, held, fetch, rendered>>
cacheVars == <<cache, opened, nextHandle>>
threadVars == <<mutex, poisoned, pc, arg, local, ret>>
schemaVars == <<discovery, observed, schemaOut, discovered>>
vars == <<storeVars, cacheVars, scanVars, threadVars, schemaVars>>

(***************************************************************************)
(* Values, records, collections.                                           *)
(***************************************************************************)
\* Option<T>: <<>> is None, <<x>> is Some(x).
None == <<>>
Some(x) == <<x>>

\* manifoldb_core::types::Value: a tag and a payload (a tuple of integers: the
\* bytes of a string or byte sequence, the elements of an array or vector).
ValueTags == {"Null", "Bool", "Int", "Float", "String", "Bytes", "Array",
              "Vector", "SparseVector", "MultiVector"}
Val(t, p) == [tag |-> t, v |-> p]

\* Property names are byte strings, ordered as Rust orders String (lexicographic).
NameA == <<97>>
NameAB == <<97, 98>>
NameB == <<98>>
PropNames == {NameA, NameAB, NameB}

\* A stored record: its bytes decode (dec) to an Entity / Edge with a property
\* map, or they do not.
Rec(p) == [dec |-> TRUE, props |-> p]
Corrupt == [dec |-> FALSE, props |-> <<>>]
Plain == Rec(<<>>)
NoProps == <<>>

\* The property map {name: value}.
One(n, v) == [x \in {n} |-> v]
Two(n, v, m, w) == [x \in {n, m} |-> IF x = n THEN v ELSE w]

\* Records of the scan specification: undecodable, without properties, with an
\* integer property, and with a string property holding an interior NUL byte.
WithInt == Rec(One(NameA, Val("Int", <<30>>)))
WithNul == Rec(One(NameA, Val("String", <<65, 0, 66>>)))
ScanRecords == {Corrupt, Plain, WithInt, WithNul}

\* Property maps handed to observe_entity / observe_edge (SpecSchema).  Every
\* variant of Value occurs: the name "a" is seen as a boolean, a string, a
\* float and a sparse vector, "b" as an integer, a null and a vector, "ab" as
\* a byte sequence, an array and a multi-vector.
SchemaProps ==
    { NoProps,
      One(NameB, Val("Int", <<30>>)),
      One(NameA, Val("Bool", <<1>>)),
      Two(NameAB, Val("Bytes", <<1>>), NameA, Val("String", <<120>>)),
      Two(NameB, Val("Int", <<7>>), NameAB, Val("Array", <<1, 2>>)),
      One(NameA, Val("Float", <<2>>)),
      One(NameB, Val("Null", <<>>)),
      Two(NameB, Val("Vector", <<1, 2>>), NameAB, Val("MultiVector", <<1>>)),
      One(NameA, Val("SparseVector", <<1>>)) }

\* Records of the collections discovery samples (SpecDiscover).
SchemaRecords ==
    { Corrupt,
      Rec(One(NameA, Val("Bool", <<1>>))),
      Rec(One(NameB, Val("Int", <<30>>))),
      Rec(Two(NameAB, Val("Bytes", <<1>>), NameA, Val("String", <<120>>))) }

\* The invocations of discovery over one collection (SpecDiscover).
Runs == {"r1", "r2"}

\* Records of SpecNull: without properties, with the property "a" present and
\* Null, and with "a" an integer.
WithNull == Rec(One(NameA, Val("Null", <<>>)))
NullRecords == {Plain, WithNull, WithInt}

\* Records other clients write while a scan is open (SpecLive).
LiveRecords == {WithInt}

Tables(recs) ==
    { [exists |-> FALSE, rows |-> <<>>] } \cup
    { [exists |-> TRUE, rows |-> f] : f \in UNION { [S -> recs] : S \in SUBSET Keys } }


(***************************************************************************)
(* The storage cursor (manifoldb_storage::Cursor), as the scanner uses it. *)
(* A cursor position is the entry it last returned (None: none).           *)
(***************************************************************************)
KeysFrom(rows, k) == { x \in DOMAIN rows : x >= k }

MinKey(S) == CHOOSE x \in S : \A y \in S : x <= y

\* cursor.seek_first(): the entry with the smallest key.
SeekFirst(rows) ==
    IF DOMAIN rows = {} THEN None ELSE Some(MinKey(DOMAIN rows))

\* cursor.seek(key): the first entry whose key is >= key.
Seek(rows, k) ==
    IF KeysFrom(rows, k) = {} THEN None ELSE Some(MinKey(KeysFrom(rows, k)))

\* cursor.next(): the entry after the position; None at the end.
CursorNext(rows, pos) ==
    IF pos = None \/ KeysFrom(rows, pos[1] + 1) = {}
    THEN None
    ELSE Some(MinKey(KeysFrom(rows, pos[1] + 1)))

\* Entity::decode / Edge::decode of the value at key k succeeded.
Decodes(rows, k) == rows[k].dec

(***************************************************************************)
(* scan_entity_batch / scan_edge_batch.                                    *)
(***************************************************************************)
\* Ok((entities, last_key)), and as ghosts the entries read from the cursor and
\* whether the cursor returned None (eof).
Batch(recs, lk, n) ==
    [ok |-> TRUE, recs |-> recs, last_key |-> lk, reads |-> n, eof |-> FALSE]

\* The batch returned after the cursor ran out of entries.
Exhausted(b) == [b EXCEPT !.eof = TRUE]

Item(rows, k) == [key |-> k, rec |-> rows[k]]

\* Mutant of ScanLoop: the loop test is off by one (<= for <).
RECURSIVE ScanLoopOffByOne(_, _, _, _, _, _)
ScanLoopOffByOne(rows, pos, entities, lk, batch_size, reads) ==
    IF Len(entities) <= batch_size
    THEN LET e == CursorNext(rows, pos) IN
         IF e = None
         THEN Exhausted(Batch(entities, lk, reads))
         ELSE IF Decodes(rows, e[1])
              THEN ScanLoopOffByOne(rows, e, Append(entities, Item(rows, e[1])), e,
                                    batch_size, reads + 1)
              ELSE ScanLoopOffByOne(rows, e, entities, lk, batch_size, reads + 1)
    ELSE Batch(entities, lk, reads)

\* Mutant of ScanLoop: a decode failure is propagated (Entity::decode(&value)?).
RECURSIVE ScanLoopDecodeError(_, _, _, _, _, _)
ScanLoopDecodeError(rows, pos, entities, lk, batch_size, reads) ==
    IF Len(entities) < batch_size
    THEN LET e == CursorNext(rows, pos) IN
         IF e = None
         THEN Exhausted(Batch(entities, lk, reads))
         ELSE IF Decodes(rows, e[1])
              THEN ScanLoopDecodeError(rows, e, Append(entities, Item(rows, e[1])), e,
                                       batch_size, reads + 1)
              ELSE [ok |-> FALSE, recs |-> <<>>, last_key |-> None, reads |-> reads + 1,
                    eof |-> FALSE]
    ELSE Batch(entities, lk, reads)

\* Mutant of ScanLoop: the loop ends at the first record that fails to decode.
RECURSIVE ScanLoopStopsAtUndecodable(_, _, _, _, _, _)
ScanLoopStopsAtUndecodable(rows, pos, entities, lk, batch_size, reads) ==
    IF Len(entities) < batch_size
    THEN LET e == CursorNext(rows, pos) IN
         IF e = None
         THEN Exhausted(Batch(entities, lk, reads))
         ELSE IF Decodes(rows, e[1])
              THEN ScanLoopStopsAtUndecodable(rows, e, Append(entities, Item(rows, e[1])),
                                              e, batch_size, reads + 1)
              ELSE Batch(entities, lk, reads + 1)
    ELSE Batch(entities, lk, reads)

\* Mutant of ScanLoop: last_key is set for every entry read, decoded or not.
RECURSIVE ScanLoopKeyOfEveryRead(_, _, _, _, _, _)
ScanLoopKeyOfEveryRead(rows, pos, entities, lk, batch_size, reads) ==
    IF Len(entities) < batch_size
    THEN LET e == CursorNext(rows, pos) IN
         IF e = None
         THEN Exhausted(Batch(entities, lk, reads))
         ELSE IF Decodes(rows, e[1])
              THEN ScanLoopKeyOfEveryRead(rows, e, Append(entities, Item(rows, e[1])), e,
                                          batch_size, reads + 1)
              ELSE ScanLoopKeyOfEveryRead(rows, e, entities, e, batch_size, reads + 1)
    ELSE Batch(entities, lk, reads)

\* while entities.len() < batch_size { match cursor.next()? ... }
RECURSIVE ScanLoop(_, _, _, _, _, _)
ScanLoop(rows, pos, entities, lk, batch_size, reads) ==
    IF Len(entities) < batch_size
    THEN LET e == CursorNext(rows, pos) IN
         IF e = None
         THEN Exhausted(Batch(entities, lk, reads))
         ELSE IF Decodes(rows, e[1])
              THEN ScanLoop(rows, e, Append(entities, Item(rows, e[1])), e,
                            batch_size, reads + 1)
              ELSE ScanLoop(rows, e, entities, lk, batch_size, reads + 1)
    ELSE Batch(entities, lk, reads)

\* Mutant of FirstEntry: the record at the continuation key is not skipped.
FirstEntryNoSkip(rows, start_after_key) ==
    IF start_after_key # None
    THEN Seek(rows, start_after_key[1])
    ELSE SeekFirst(rows)

\* Mutant of FirstEntry: every batch starts with seek_first().
FirstEntryFromStart(rows, start_after_key) == SeekFirst(rows)

\* The first entry of a batch: seek(after_key) then next(), or seek_first().
FirstEntry(rows, start_after_key) ==
    IF start_after_key # None
    THEN CursorNext(rows, Seek(rows, start_after_key[1]))
    ELSE SeekFirst(rows)

ScanBatch(tbl, start_after_key, batch_size) ==
    IF ~tbl.exists
    THEN Batch(<<>>, None, 0)
    ELSE LET first_entry == FirstEntry(tbl.rows, start_after_key) IN
         IF first_entry = None
         THEN Exhausted(Batch(<<>>, None, 0))
         ELSE IF Decodes(tbl.rows, first_entry[1])
              THEN ScanLoop(tbl.rows, first_entry,
                            <<Item(tbl.rows, first_entry[1])>>, first_entry,
                            batch_size, 1)
              ELSE ScanLoop(tbl.rows, first_entry, <<>>, None, batch_size, 1)

(***************************************************************************)
(* schema.rs: ColumnType, SchemaDiscovery / EdgeSchemaDiscovery.           *)
(***************************************************************************)
manifold_value_to_column_type(value) ==
    CASE value.tag = "Null" -> "Varchar"
      [] value.tag = "Bool" -> "Boolean"
      [] value.tag = "Int" -> "Bigint"
      [] value.tag = "Float" -> "Double"
      [] value.tag = "String" -> "Varchar"
      [] value.tag = "Bytes" -> "Blob"
      [] value.tag = "Array" -> "Varchar"
      [] value.tag = "Vector" -> "Varchar"
      [] value.tag = "SparseVector" -> "Varchar"
      [] value.tag = "MultiVector" -> "Varchar"

\* SchemaDiscovery::new / EdgeSchemaDiscovery::new
NewDiscovery == [property_types |-> <<>>, sample_count |-> 0]

Contains(seq, x) == \E i \in 1..Len(seq) : seq[i] = x

\* Mutant of Observe: only the first record observed contributes names; later
\* records are counted and nothing else.
ObserveFirstRecordOnly(d, properties) ==
    [ sample_count |-> d.sample_count + 1,
      property_types |->
        IF d.sample_count > 0 THEN d.property_types
        ELSE [ key \in DOMAIN properties |->
                 <<manifold_value_to_column_type(properties[key])>> ] ]

\* Mutant of Observe: the type is pushed without the contains test.
ObservePushesAlways(d, properties) ==
    [ sample_count |-> d.sample_count + 1,
      property_types |->
        [ key \in DOMAIN d.property_types \cup DOMAIN properties |->
            IF key \in DOMAIN properties
            THEN Append(IF key \in DOMAIN d.property_types
                        THEN d.property_types[key] ELSE <<>>,
                        manifold_value_to_column_type(properties[key]))
            ELSE d.property_types[key] ] ]

\* observe_entity / observe_edge.  A property map holds each name once, so the
\* order in which the map is iterated does not show in the result.
Observe(d, properties) ==
    [ sample_count |-> d.sample_count + 1,
      property_types |->
        [ key \in DOMAIN d.property_types \cup DOMAIN properties |->
            IF key \in DOMAIN properties
            THEN LET types == IF key \in DOMAIN d.property_types
                              THEN d.property_types[key] ELSE <<>>
                     col_type == manifold_value_to_column_type(properties[key])
                 IN IF Contains(types, col_type) THEN types
                    ELSE Append(types, col_type)
            ELSE d.property_types[key] ] ]

\* Ord for String: byte-wise lexicographic, a proper prefix first.
RECURSIVE LexLess(_, _)
LexLess(a, b) ==
    IF b = <<>> THEN FALSE
    ELSE IF a = <<>> THEN TRUE
    ELSE IF a[1] # b[1] THEN a[1] < b[1]
    ELSE LexLess(Tail(a), Tail(b))

RECURSIVE InsertSorted(_, _)
InsertSorted(seq, x) ==
    IF seq = <<>> THEN <<x>>
    ELSE IF LexLess(x, seq[1]) THEN <<x>> \o seq
    ELSE <<seq[1]>> \o InsertSorted(Tail(seq), x)

\* property_names.sort()
RECURSIVE SortNames(_)
SortNames(seq) ==
    IF seq = <<>> THEN <<>>
    ELSE InsertSorted(SortNames(Tail(seq)), seq[1])

\* The orders in which a HashMap may hand out its keys: each run picks one.
Orders == { o \in [1..Cardinality(PropNames) -> PropNames] :
              \A i, j \in DOMAIN o : i # j => o[i] # o[j] }

\* self.property_types.keys().cloned().collect(), in the map's iteration order.
KeysInOrder(property_types, order) ==
    SelectSeq(order, LAMBDA n : n \in DOMAIN property_types)

\* Column names: the fixed ones, and format!("prop_{}", name).
Fixed(s) == [pre |-> s, nm |-> <<>>]
PropCol(name) == [pre |-> "prop_", nm |-> name]

Column(name, nullable) ==
    [name |-> name, column_type |-> "Varchar", nullable |-> nullable]

FixedNames(kind) ==
    IF kind = "entities"
    THEN <<Fixed("id"), Fixed("labels")>>
    ELSE <<Fixed("id"), Fixed("source"), Fixed("target"), Fixed("edge_type")>>

\* Mutant of PropertyNames: property_names.sort() is left out.
PropertyNamesUnsorted(d, order) == KeysInOrder(d.property_types, order)

\* The sorted property names of finalize.
PropertyNames(d, order) == SortNames(KeysInOrder(d.property_types, order))

\* Mutant of Finalize: a property seen with one type only gets that type, and
\* text otherwise (what the doc comment of SchemaDiscovery describes).
FinalizeInferredTypes(d, kind, order) ==
    LET fixed == FixedNames(kind)
        property_names == PropertyNames(d, order)
    IN [ i \in 1..Len(fixed) |-> Column(fixed[i], FALSE) ] \o
       [ i \in 1..Len(property_names) |->
           [ name |-> PropCol(property_names[i]),
             column_type |->
                 IF Len(d.property_types[property_names[i]]) = 1
                 THEN d.property_types[property_names[i]][1] ELSE "Varchar",
             nullable |-> TRUE ] ]

\* SchemaDiscovery::finalize / EdgeSchemaDiscovery::finalize
Finalize(d, kind, order) ==
    LET fixed == FixedNames(kind)
        property_names == PropertyNames(d, order)
    IN [ i \in 1..Len(fixed) |-> Column(fixed[i], FALSE) ] \o
       [ i \in 1..Len(property_names) |-> Column(PropCol(property_names[i]), TRUE) ]

\* for (i, col) in columns.iter().enumerate() { column_index.insert(name, i) }
\* (indexes from 0; a later column of the same name would replace an earlier).
ColumnIndex(columns) ==
    [ n \in { columns[i].name : i \in 1..Len(columns) } |->
        (CHOOSE i \in 1..Len(columns) :
            /\ columns[i].name = n
            /\ \A j \in 1..Len(columns) : columns[j].name = n => j <= i) - 1 ]

\* Mutant of DiscoverLoop: while count <= SCHEMA_SAMPLE_SIZE.
RECURSIVE DiscoverLoopOffByOne(_, _, _, _)
DiscoverLoopOffByOne(rows, pos, d, count) ==
    IF count <= SCHEMA_SAMPLE_SIZE
    THEN LET e == CursorNext(rows, pos) IN
         IF e = None
         THEN [ok |-> TRUE, d |-> d, reads |-> count]
         ELSE DiscoverLoopOffByOne(rows, e,
                                   IF Decodes(rows, e[1])
                                   THEN Observe(d, rows[e[1]].props) ELSE d,
                                   count + 1)
    ELSE [ok |-> TRUE, d |-> d, reads |-> count]

\* while count < SCHEMA_SAMPLE_SIZE { match cursor.next()? ... count += 1 }
RECURSIVE DiscoverLoop(_, _, _, _)
DiscoverLoop(rows, pos, d, count) ==
    IF count < SCHEMA_SAMPLE_SIZE
    THEN LET e == CursorNext(rows, pos) IN
         IF e = None
         THEN [ok |-> TRUE, d |-> d, reads |-> count]
         ELSE DiscoverLoop(rows, e,
                           IF Decodes(rows, e[1])
                           THEN Observe(d, rows[e[1]].props) ELSE d,
                           count + 1)
    ELSE [ok |-> TRUE, d |-> d, reads |-> count]

\* Mutant of Sample: a missing collection is an error (tx.cursor(..)?).
SampleFailsOnAbsent(tbl) ==
    IF ~tbl.exists
    THEN [ok |-> FALSE, d |-> NewDiscovery, reads |-> 0]
    ELSE LET first == SeekFirst(tbl.rows) IN
         IF first = None
         THEN [ok |-> TRUE, d |-> NewDiscovery, reads |-> 0]
         ELSE DiscoverLoop(tbl.rows, first,
                           IF Decodes(tbl.rows, first[1])
                           THEN Observe(NewDiscovery, tbl.rows[first[1]].props)
                           ELSE NewDiscovery,
                           1)

\* The sampling part of discover_entity_schema / discover_edge_schema.
Sample(tbl) ==
    IF ~tbl.exists
    THEN [ok |-> TRUE, d |-> NewDiscovery, reads |-> 0]
    ELSE LET first == SeekFirst(tbl.rows) IN
         IF first = None
         THEN [ok |-> TRUE, d |-> NewDiscovery, reads |-> 0]
         ELSE DiscoverLoop(tbl.rows, first,
                           IF Decodes(tbl.rows, first[1])
                           THEN Observe(NewDiscovery, tbl.rows[first[1]].props)
                           ELSE NewDiscovery,
                           1)

\* discover_entity_schema / discover_edge_schema: (columns, column_index), and as
\* ghosts the entries read from the cursor and the discovery's sample_count.
DiscoverSchema(tbl, kind, order) ==
    LET s == Sample(tbl)
        columns == Finalize(s.d, kind, order)
    IN [ ok |-> s.ok,
         columns |-> columns,
         column_index |-> ColumnIndex(columns),
         reads |-> s.reads,
         sample_count |-> s.d.sample_count ]


(***************************************************************************)
(* The record projector: value_to_duckdb_string, populate_*_output.        *)
(***************************************************************************)
\* i.to_string() for a non-negative integer: its decimal digits.
RECURSIVE Digits(_)
Digits(n) ==
    IF n < 10 THEN <<48 + n>> ELSE Digits(n \div 10) \o <<48 + (n % 10)>>

\* value_to_duckdb_string, the scalar arms: the same text in entities.rs and in
\* edges.rs.  A float is modelled at integral values, which Display prints
\* without a fraction.
value_to_duckdb_string(value) ==
    CASE value.tag = "Null" -> <<>>
      [] value.tag = "Bool" ->
            IF value.v[1] = 1 THEN <<116, 114, 117, 101>>
            ELSE <<102, 97, 108, 115, 101>>
      [] value.tag = "Int" -> Digits(value.v[1])
      [] value.tag = "Float" -> Digits(value.v[1])
      [] value.tag = "String" -> value.v

ScalarTags == {"Null", "Bool", "Int", "Float", "String"}

\* Texts are sequences of character codes.
RECURSIVE JoinWith(_, _)
JoinWith(texts, sep) ==
    IF texts = <<>> THEN <<>>
    ELSE IF Len(texts) = 1 THEN texts[1]
    ELSE texts[1] \o sep \o JoinWith(Tail(texts), sep)

\* "[" t1 "," t2 ... "]"
JsonArray(texts) == <<91>> \o JoinWith(texts, <<44>>) \o <<93>>

\* serde_json's text of an f32 / f64 with an integral value: "2.0".
JsonFloat(n) == Digits(n) \o <<46, 48>>

HexDigit(d) == IF d < 10 THEN 48 + d ELSE 87 + d

\* serde_json's escape of one character of a string.
JsonChar(c) ==
    CASE c = 34 -> <<92, 34>>
      [] c = 92 -> <<92, 92>>
      [] c = 8 -> <<92, 98>>
      [] c = 9 -> <<92, 116>>
      [] c = 10 -> <<92, 110>>
      [] c = 12 -> <<92, 102>>
      [] c = 13 -> <<92, 114>>
      [] c < 32 /\ c \notin {8, 9, 10, 12, 13} ->
            <<92, 117, 48, 48, HexDigit(c \div 16), HexDigit(c % 16)>>
      [] OTHER -> <<c>>

\* serde_json::to_string(&String): the quoted, escaped string.
JsonString(text) ==
    <<34>> \o JoinWith([ i \in 1..Len(text) |-> JsonChar(text[i]) ], <<>>) \o <<34>>

\* serde_json::to_string(&Vec<u8>): the array of the bytes as numbers.
JsonBytes(bytes) == JsonArray([ i \in 1..Len(bytes) |-> Digits(bytes[i]) ])

\* serde_json::to_string(&Vec<f32>)
JsonVector(v) == JsonArray([ i \in 1..Len(v) |-> JsonFloat(v[i]) ])

\* serde_json::to_string of the elements of an Array, a SparseVector and a
\* MultiVector.  The Serialize implementations are those of manifoldb_core;
\* the model takes an array of integer values ({"Int":n}), a sparse vector of
\* (index, value) pairs and a multi-vector of one row.  Either scanner passes
\* the same reference to the same function.
JsonValues(arr) ==
    JsonArray([ i \in 1..Len(arr) |->
                  <<123, 34, 73, 110, 116, 34, 58>> \o Digits(arr[i]) \o <<125>> ])

JsonSparse(sv) ==
    JsonArray([ i \in 1..Len(sv) |-> JsonArray(<<Digits(i - 1), JsonFloat(sv[i])>>) ])

JsonMulti(mv) == JsonArray(<<JsonVector(mv)>>)

\* ALPHABET[i] of base64_encode.
Alphabet(i) ==
    IF i < 26 THEN 65 + i
    ELSE IF i < 52 THEN 97 + (i - 26)
    ELSE IF i < 62 THEN 48 + (i - 52)
    ELSE IF i = 62 THEN 43 ELSE 47

\* base64_encode (entities.rs): chunks of three bytes, padded with "=".
RECURSIVE base64_encode(_)
base64_encode(bytes) ==
    IF bytes = <<>> THEN <<>>
    ELSE LET n == IF Len(bytes) < 3 THEN Len(bytes) ELSE 3
             b0 == bytes[1]
             b1 == IF n > 1 THEN bytes[2] ELSE 0
             b2 == IF n > 2 THEN bytes[3] ELSE 0
         IN << Alphabet(b0 \div 4),
               Alphabet(((b0 % 4) * 16) + (b1 \div 16)),
               IF n > 1 THEN Alphabet(((b1 % 16) * 4) + (b2 \div 64)) ELSE 61,
               IF n > 2 THEN Alphabet(b2 % 64) ELSE 61 >>
            \o base64_encode(SubSeq(bytes, n + 1, Len(bytes)))

\* value_to_json_string (entities.rs only).  serde_json::to_string does not
\* fail on these types, so the unwrap_or_else fallbacks are not taken.
value_to_json_string(value) ==
    CASE value.tag = "Null" -> <<110, 117, 108, 108>>
      [] value.tag = "Bool" -> value_to_duckdb_string(value)
      [] value.tag = "Int" -> Digits(value.v[1])
      [] value.tag = "Float" -> Digits(value.v[1])
      [] value.tag = "String" -> JsonString(value.v)
      [] value.tag = "Bytes" -> JsonString(base64_encode(value.v))
      [] value.tag = "Array" -> JsonValues(value.v)
      [] value.tag = "Vector" -> JsonVector(value.v)
      [] value.tag = "SparseVector" -> JsonSparse(value.v)
      [] value.tag = "MultiVector" -> JsonMulti(value.v)

\* value_to_duckdb_string of entities.rs: `_ => value_to_json_string(value)`.
entity_value_to_duckdb_string(value) ==
    IF value.tag \in ScalarTags THEN value_to_duckdb_string(value)
    ELSE value_to_json_string(value)

\* value_to_duckdb_string of edges.rs: serde_json::to_string of the payload.
edge_value_to_duckdb_string(value) ==
    CASE value.tag \in ScalarTags -> value_to_duckdb_string(value)
      [] value.tag = "Bytes" -> JsonBytes(value.v)
      [] value.tag = "Array" -> JsonValues(value.v)
      [] value.tag = "Vector" -> JsonVector(value.v)
      [] value.tag = "SparseVector" -> JsonSparse(value.v)
      [] value.tag = "MultiVector" -> JsonMulti(value.v)

\* value_to_duckdb_string as the projector of the table function `kind` calls it.
ValueText(kind, value) ==
    IF kind = "entities" THEN entity_value_to_duckdb_string(value)
    ELSE edge_value_to_duckdb_string(value)

\* CString::new(text) fails on an interior NUL byte.
CStringNewFails(text) == \E i \in 1..Len(text) : text[i] = 0

\* The text of a structural cell.  The id is rendered from the record's id (the
\* collections are keyed by id); the other structural fields are not modelled
\* in content and render as "?".
StructText(item, name) ==
    IF name.pre = "id" THEN Digits(item.key) ELSE <<63>>

\* Mutant of RowCells: every property column is written, with the empty text
\* where the record has no such property.
RowCellsWritesMissing(item, column_index, kind) ==
    [ c \in { column_index[n] : n \in DOMAIN column_index } |->
        IF \E n \in DOMAIN column_index : column_index[n] = c /\ n.pre # "prop_"
        THEN StructText(item, CHOOSE n \in DOMAIN column_index :
                                  column_index[n] = c /\ n.pre # "prop_")
        ELSE LET n == CHOOSE x \in DOMAIN column_index : column_index[x] = c
             IN IF n.nm \in DOMAIN item.rec.props
                THEN ValueText(kind, item.rec.props[n.nm]) ELSE <<>> ]

\* Mutant of RowCells: a property without a column in the schema is written
\* into the column after the last one.
RowCellsWritesUnknown(item, column_index, kind) ==
    LET fixed == { FixedNames(kind)[i] : i \in 1..Len(FixedNames(kind)) }
        structural == { n \in fixed : n \in DOMAIN column_index }
        props == { n \in DOMAIN item.rec.props : PropCol(n) \in DOMAIN column_index }
        unknown == DOMAIN item.rec.props \ props
        beyond == Cardinality(DOMAIN column_index)
    IN [ c \in { column_index[n] : n \in structural } \cup
               { column_index[PropCol(n)] : n \in props } \cup
               (IF unknown = {} THEN {} ELSE {beyond}) |->
           IF \E n \in structural : column_index[n] = c
           THEN StructText(item, CHOOSE n \in structural : column_index[n] = c)
           ELSE IF c = beyond
           THEN ValueText(kind, item.rec.props[CHOOSE n \in unknown : TRUE])
           ELSE ValueText(kind,
                    item.rec.props[CHOOSE n \in props : column_index[PropCol(n)] = c]) ]

\* Mutant of RowCells: a property whose value is Null is not written, like a
\* property the record does not have.
RowCellsSkipsNull(item, column_index, kind) ==
    LET fixed == { FixedNames(kind)[i] : i \in 1..Len(FixedNames(kind)) }
        structural == { n \in fixed : n \in DOMAIN column_index }
        props == { n \in DOMAIN item.rec.props :
                     /\ PropCol(n) \in DOMAIN column_index
                     /\ item.rec.props[n].tag # "Null" }
    IN [ c \in { column_index[n] : n \in structural } \cup
               { column_index[PropCol(n)] : n \in props } |->
           IF \E n \in structural : column_index[n] = c
           THEN StructText(item, CHOOSE n \in structural : column_index[n] = c)
           ELSE ValueText(kind,
                    item.rec.props[CHOOSE n \in props : column_index[PropCol(n)] = c]) ]

\* The cells one row writes: column index -> text.
RowCells(item, column_index, kind) ==
    LET fixed == { FixedNames(kind)[i] : i \in 1..Len(FixedNames(kind)) }
        structural == { n \in fixed : n \in DOMAIN column_index }
        props == { n \in DOMAIN item.rec.props : PropCol(n) \in DOMAIN column_index }
    IN [ c \in { column_index[n] : n \in structural } \cup
               { column_index[PropCol(n)] : n \in props } |->
           IF \E n \in structural : column_index[n] = c
           THEN StructText(item, CHOOSE n \in structural : column_index[n] = c)
           ELSE ValueText(kind,
                    item.rec.props[CHOOSE n \in props : column_index[PropCol(n)] = c]) ]

\* populate_entity_output / populate_edge_output: Err on the first cell whose
\* CString::new fails, else the cells of every row.
PopulateOutput(entities, column_index, kind) ==
    LET cells == [ i \in 1..Len(entities) |->
                     RowCells(entities[i], column_index, kind) ]
    IN [ ok |-> \A i \in 1..Len(entities) : \A c \in DOMAIN cells[i] :
                    ~CStringNewFails(cells[i][c]),
         cells |-> cells ]

(***************************************************************************)
(* The engine cache, as one step (the mutex is held from the lookup to the *)
(* insert; SpecCache takes the function statement by statement).           *)
(***************************************************************************)
\* get_cached_engine(db_path); open_ok: RedbEngine::open succeeds, h: the engine
\* it returns.
GetCachedEngine(c, db_path, open_ok, h) ==
    IF db_path \in DOMAIN c
    THEN [ok |-> TRUE, engine |-> c[db_path], cache |-> c, did_open |-> FALSE]
    ELSE IF open_ok
         THEN [ok |-> TRUE, engine |-> h, cache |-> c @@ (db_path :> h),
               did_open |-> TRUE]
         ELSE [ok |-> FALSE, engine |-> 0, cache |-> c, did_open |-> FALSE]

\* The ghost bookkeeping of an acquire.
Acquire(r, db_path) ==
    /\ cache' = r.cache
    /\ opened' = IF r.did_open
                 THEN [opened EXCEPT ![db_path] = @ \cup {r.engine}]
                 ELSE opened
    /\ nextHandle' = IF r.did_open THEN nextHandle + 1 ELSE nextHandle

(***************************************************************************)
(* bind, init.                                                             *)
(***************************************************************************)
\* A call as the host and the storage saw it.  op: the handler; res, msg: its
\* return; rows: the keys of the rows of the output chunk (its length is the
\* output length); cells: what was written into them; fault: what was injected;
\* acquired: get_cached_engine was called; txs: read transactions begun;
\* reads: entries read from a cursor; was_done, start: the done flag and the
\* continuation key the call found; scanned, fetched: scan_*_batch returned, and
\* the keys of the records it returned; panicked: func_inner panicked;
\* unwound: a panic left func.
NoCall == [op |-> "none", res |-> "Ok", msg |-> "", rows |-> <<>>, cells |-> <<>>,
           fault |-> "none", acquired |-> FALSE, txs |-> 0, reads |-> 0,
           was_done |-> FALSE, start |-> None, scanned |-> FALSE, fetched |-> <<>>,
           panicked |-> FALSE, unwound |-> FALSE]

NoBind == [db_path |-> "", columns |-> <<>>, column_index |-> <<>>,
           registered |-> <<>>, reads |-> 0, sample_count |-> 0]

\* Mutant of Bind: the fixed columns are registered with the host before the
\* engine is acquired.
BindRegistersFirst(s) ==
    /\ phase[s] = "unbound"
    /\ \E open_ok \in BOOLEAN, io_ok \in BOOLEAN, order \in Orders :
        LET r == GetCachedEngine(cache, ScanPath, open_ok, nextHandle)
            sch == DiscoverSchema(table, vtab, order)
            fault == IF ~open_ok THEN "open" ELSE IF ~io_ok THEN "storage" ELSE "none"
        IN /\ Acquire(r, ScanPath)
           /\ IF r.ok /\ io_ok /\ sch.ok
              THEN /\ phase' = [phase EXCEPT ![s] = "bound"]
                   /\ bindData' = [bindData EXCEPT ![s] =
                        [ db_path |-> ScanPath,
                          columns |-> sch.columns,
                          column_index |-> sch.column_index,
                          registered |-> [ i \in 1..Len(sch.columns) |->
                              <<sch.columns[i].name, sch.columns[i].column_type>> ],
                          reads |-> sch.reads,
                          sample_count |-> sch.sample_count ]]
                   /\ lastCall' = [lastCall EXCEPT ![s] =
                        [NoCall EXCEPT !.op = "bind", !.fault = fault,
                                       !.acquired = TRUE, !.txs = 1,
                                       !.reads = sch.reads]]
              ELSE /\ UNCHANGED phase
                   /\ bindData' = [bindData EXCEPT ![s].registered =
                        [ i \in 1..Len(FixedNames(vtab)) |->
                            <<FixedNames(vtab)[i], "Varchar">> ]]
                   /\ lastCall' = [lastCall EXCEPT ![s] =
                        [NoCall EXCEPT !.op = "bind", !.res = "Err", !.fault = fault,
                                       !.msg = IF ~r.ok THEN "open" ELSE "storage",
                                       !.acquired = TRUE,
                                       !.txs = IF r.ok THEN 1 ELSE 0]]
    /\ UNCHANGED <<storeVars, done, last_key, emitted, nbatches, ncalls, failed,
                   modified, prior, threadVars, schemaVars>>

\* ManifoldEntitiesVTab::bind / ManifoldEdgesVTab::bind.  open_ok: the storage
\* opens; io_ok: begin_read and the cursor reads of discovery succeed; order:
\* the iteration order of the discovery's HashMap.
Bind(s) ==
    /\ phase[s] = "unbound"
    /\ \E open_ok \in BOOLEAN, io_ok \in BOOLEAN, order \in Orders :
        LET r == GetCachedEngine(cache, ScanPath, open_ok, nextHandle)
            sch == DiscoverSchema(table, vtab, order)
            fault == IF ~open_ok THEN "open" ELSE IF ~io_ok THEN "storage" ELSE "none"
        IN /\ Acquire(r, ScanPath)
           /\ IF r.ok /\ io_ok /\ sch.ok
              THEN /\ phase' = [phase EXCEPT ![s] = "bound"]
                   /\ bindData' = [bindData EXCEPT ![s] =
                        [ db_path |-> ScanPath,
                          columns |-> sch.columns,
                          column_index |-> sch.column_index,
                          registered |-> [ i \in 1..Len(sch.columns) |->
                              <<sch.columns[i].name, sch.columns[i].column_type>> ],
                          reads |-> sch.reads,
                          sample_count |-> sch.sample_count ]]
                   /\ lastCall' = [lastCall EXCEPT ![s] =
                        [NoCall EXCEPT !.op = "bind", !.fault = fault,
                                       !.acquired = TRUE, !.txs = 1,
                                       !.reads = sch.reads]]
              ELSE /\ UNCHANGED <<phase, bindData>>
                   /\ lastCall' = [lastCall EXCEPT ![s] =
                        [NoCall EXCEPT !.op = "bind", !.res = "Err", !.fault = fault,
                                       !.msg = IF ~r.ok THEN "open" ELSE "storage",
                                       !.acquired = TRUE,
                                       !.txs = IF r.ok THEN 1 ELSE 0]]
    /\ UNCHANGED <<storeVars, done, last_key, emitted, nbatches, ncalls, failed,
                   modified, prior, threadVars, schemaVars>>

\* ManifoldEntitiesVTab::init / ManifoldEdgesVTab::init
InitScan(s) ==
    /\ phase[s] = "bound"
    /\ phase' = [phase EXCEPT ![s] = "ready"]
    /\ done' = [done EXCEPT ![s] = FALSE]
    /\ last_key' = [last_key EXCEPT ![s] = None]
    /\ UNCHANGED <<storeVars, cacheVars, bindData, emitted, nbatches, ncalls, failed,
                   modified, lastCall, prior, threadVars, schemaVars>>


(***************************************************************************)
(* func: one produce call.                                                 *)
(***************************************************************************)
\* What can go wrong in a produce call from outside the adapter's own logic: a
\* storage error (begin_read or a cursor read returns Err), a panic before the
\* batch is fetched (last_key.lock().unwrap(), or inside the storage engine), and
\* a panic after the continuation key was stored (inside the projection).
Faults == {"none", "storage", "panic_scan", "panic_populate"}

\* The host ends a query at the first error it is reported, so the model injects
\* at most one fault into an invocation; what the adapter does when the host
\* calls again after that fault is explored.
FaultsFor(s) == IF failed[s] THEN {"none"} ELSE Faults

KeysOf(entities) == [ i \in 1..Len(entities) |-> entities[i].key ]

\* What func_inner did: its return (res, msg), the scan state it left (done,
\* last_key), the rows and cells of the output chunk, and the ghosts of NoCall.
Outcome(res, msg, d, lk, entities, cells, acquired, txs, b) ==
    [res |-> res, msg |-> msg, done |-> d, last_key |-> lk, rows |-> KeysOf(entities),
     cells |-> cells, acquired |-> acquired, txs |-> txs, reads |-> b.reads,
     scanned |-> b.ok, fetched |-> KeysOf(b.recs)]

NoBatch == [ok |-> FALSE, recs |-> <<>>, last_key |-> None, reads |-> 0, eof |-> FALSE]

\* Mutant of FuncFetch: the continuation key is stored before the batch is
\* tested for emptiness, so the empty batch stores None.
FuncFetchStoresKeyFirst(s, fault, r) ==
    IF ~r.ok
    THEN Outcome("Err", "open", done[s], last_key[s], <<>>, <<>>, TRUE, 0, NoBatch)
    ELSE IF fault = "storage"
    THEN Outcome("Err", "storage", done[s], last_key[s], <<>>, <<>>, TRUE, 1, NoBatch)
    ELSE IF fault = "panic_scan"
    THEN Outcome("Panic", "", done[s], last_key[s], <<>>, <<>>, TRUE, 1, NoBatch)
    ELSE LET start_after_key == last_key[s]
             b == ScanBatch(table, start_after_key, BATCH_SIZE)
             out == PopulateOutput(b.recs, bindData[s].column_index, vtab)
         IN IF ~b.ok
            THEN Outcome("Err", "storage", done[s], last_key[s], <<>>, <<>>, TRUE, 1, b)
            ELSE IF b.recs = <<>>
            THEN Outcome("Ok", "", TRUE, b.last_key, <<>>, <<>>, TRUE, 1, b)
            ELSE IF fault = "panic_populate"
            THEN Outcome("Panic", "", done[s], b.last_key, <<>>, <<>>, TRUE, 1, b)
            ELSE IF ~out.ok
            THEN Outcome("Err", "nul", done[s], b.last_key, <<>>, <<>>, TRUE, 1, b)
            ELSE Outcome("Ok", "", done[s], b.last_key, b.recs, out.cells, TRUE, 1, b)

\* func_inner from "Get the cached engine" on.  r is the outcome of its
\* get_cached_engine call.
FuncFetch(s, fault, r) ==
    IF ~r.ok
    THEN Outcome("Err", "open", done[s], last_key[s], <<>>, <<>>, TRUE, 0, NoBatch)
    ELSE IF fault = "storage"
    THEN Outcome("Err", "storage", done[s], last_key[s], <<>>, <<>>, TRUE, 1, NoBatch)
    ELSE IF fault = "panic_scan"
    THEN Outcome("Panic", "", done[s], last_key[s], <<>>, <<>>, TRUE, 1, NoBatch)
    ELSE LET start_after_key == last_key[s]
             b == ScanBatch(table, start_after_key, BATCH_SIZE)
             out == PopulateOutput(b.recs, bindData[s].column_index, vtab)
         IN IF ~b.ok
            THEN Outcome("Err", "storage", done[s], last_key[s], <<>>, <<>>, TRUE, 1, b)
            ELSE IF b.recs = <<>>
            THEN Outcome("Ok", "", TRUE, last_key[s], <<>>, <<>>, TRUE, 1, b)
            ELSE IF fault = "panic_populate"
            THEN Outcome("Panic", "", done[s], b.last_key, <<>>, <<>>, TRUE, 1, b)
            ELSE IF ~out.ok
            THEN Outcome("Err", "nul", done[s], b.last_key, <<>>, <<>>, TRUE, 1, b)
            ELSE Outcome("Ok", "", done[s], b.last_key, b.recs, out.cells, TRUE, 1, b)

\* Mutant of FuncInner: the done flag is not consulted.
FuncInnerSkipsDoneCheck(s, fault, r) == FuncFetch(s, fault, r)

\* func_inner on scan s.
FuncInner(s, fault, r) ==
    IF done[s]
    THEN Outcome("Ok", "", done[s], last_key[s], <<>>, <<>>, FALSE, 0, NoBatch)
    ELSE FuncFetch(s, fault, r)

PanicMessage(kind) ==
    IF kind = "entities" THEN "Internal panic in manifold_entities"
    ELSE "Internal panic in manifold_edges"

\* Mutant of CatchUnwind: func calls func_inner without catch_unwind.
CatchUnwindMissing(o, kind) ==
    [res |-> o.res, msg |-> o.msg, unwound |-> o.res = "Panic"]

\* func: catch_unwind around func_inner.  unwound: the panic left func.
CatchUnwind(o, kind) ==
    IF o.res = "Panic"
    THEN [res |-> "Err", msg |-> PanicMessage(kind), unwound |-> FALSE]
    ELSE [res |-> o.res, msg |-> o.msg, unwound |-> FALSE]

\* Mutant of Func: the continuation key is one value shared by all invocations
\* (a static rather than a field of the init data).
FuncSharedKey(s) ==
    /\ phase[s] = "ready"
    /\ ncalls[s] < MaxCalls
    /\ \E fault \in FaultsFor(s), open_ok \in BOOLEAN :
        LET r == GetCachedEngine(cache, bindData[s].db_path, open_ok, nextHandle)
            o == FuncInner(s, fault, r)
            c == CatchUnwind(o, vtab)
            delivered == IF c.res = "Ok" THEN o.rows ELSE <<>>
        IN /\ IF o.acquired THEN Acquire(r, bindData[s].db_path)
                            ELSE UNCHANGED cacheVars
           /\ done' = [done EXCEPT ![s] = o.done]
           /\ last_key' = [ u \in DOMAIN last_key |-> o.last_key ]
           /\ emitted' = [emitted EXCEPT ![s] = @ \o delivered]
           /\ nbatches' = [nbatches EXCEPT ![s] =
                             IF delivered # <<>> THEN @ + 1 ELSE @]
           /\ failed' = [failed EXCEPT ![s] = @ \/ c.res # "Ok"]
           /\ lastCall' = [lastCall EXCEPT ![s] =
                [ op |-> "func", res |-> c.res, msg |-> c.msg, rows |-> delivered,
                  cells |-> IF c.res = "Ok" THEN o.cells ELSE <<>>,
                  fault |-> fault, acquired |-> o.acquired, txs |-> o.txs,
                  reads |-> o.reads, was_done |-> done[s], start |-> last_key[s],
                  scanned |-> o.scanned, fetched |-> o.fetched,
                  panicked |-> o.res = "Panic", unwound |-> c.unwound ]]
    /\ ncalls' = [ncalls EXCEPT ![s] = @ + 1]
    /\ UNCHANGED <<storeVars, phase, bindData, modified, prior, threadVars, schemaVars>>

\* ManifoldEntitiesVTab::func / ManifoldEdgesVTab::func
Func(s) ==
    /\ phase[s] = "ready"
    /\ ncalls[s] < MaxCalls
    /\ \E fault \in FaultsFor(s), open_ok \in BOOLEAN :
        LET r == GetCachedEngine(cache, bindData[s].db_path, open_ok, nextHandle)
            o == FuncInner(s, fault, r)
            c == CatchUnwind(o, vtab)
            delivered == IF c.res = "Ok" THEN o.rows ELSE <<>>
        IN /\ IF o.acquired THEN Acquire(r, bindData[s].db_path)
                            ELSE UNCHANGED cacheVars
           /\ done' = [done EXCEPT ![s] = o.done]
           /\ last_key' = [last_key EXCEPT ![s] = o.last_key]
           /\ emitted' = [emitted EXCEPT ![s] = @ \o delivered]
           /\ nbatches' = [nbatches EXCEPT ![s] =
                             IF delivered # <<>> THEN @ + 1 ELSE @]
           /\ failed' = [failed EXCEPT ![s] = @ \/ c.res # "Ok"]
           /\ lastCall' = [lastCall EXCEPT ![s] =
                [ op |-> "func", res |-> c.res, msg |-> c.msg, rows |-> delivered,
                  cells |-> IF c.res = "Ok" THEN o.cells ELSE <<>>,
                  fault |-> fault, acquired |-> o.acquired, txs |-> o.txs,
                  reads |-> o.reads, was_done |-> done[s], start |-> last_key[s],
                  scanned |-> o.scanned, fetched |-> o.fetched,
                  panicked |-> o.res = "Panic", unwound |-> c.unwound ]]
    /\ ncalls' = [ncalls EXCEPT ![s] = @ + 1]
    /\ UNCHANGED <<storeVars, phase, bindData, modified, prior, threadVars, schemaVars>>

(***************************************************************************)
(* The host ends a query and runs the same table function again: a fresh   *)
(* invocation (bind, init, func...) in the slot of a scan that completed   *)
(* without an error.                                                       *)
(***************************************************************************)
Rescan(s) ==
    /\ phase[s] = "ready"
    /\ done[s]
    /\ ~failed[s]
    /\ prior[s] = None
    /\ prior' = [prior EXCEPT ![s] = Some(emitted[s])]
    /\ phase' = [phase EXCEPT ![s] = "unbound"]
    /\ bindData' = [bindData EXCEPT ![s] = NoBind]
    /\ done' = [done EXCEPT ![s] = FALSE]
    /\ last_key' = [last_key EXCEPT ![s] = None]
    /\ emitted' = [emitted EXCEPT ![s] = <<>>]
    /\ nbatches' = [nbatches EXCEPT ![s] = 0]
    /\ ncalls' = [ncalls EXCEPT ![s] = 0]
    /\ modified' = [modified EXCEPT ![s] = FALSE]
    /\ lastCall' = [lastCall EXCEPT ![s] = NoCall]
    /\ UNCHANGED <<storeVars, cacheVars, failed, threadVars, schemaVars>>

(***************************************************************************)
(* Other clients of the storage: committed writes to the collection.       *)
(***************************************************************************)
Written == [ s \in DOMAIN phase |-> modified[s] \/ phase[s] = "ready" ]

\* tx.put(collection, key, value); commit.  Creates the collection if absent.
Put(k, rec) ==
    /\ table' = [ exists |-> TRUE,
                  rows |-> [ x \in DOMAIN table.rows \cup {k} |->
                               IF x = k THEN rec ELSE table.rows[x] ] ]
    /\ table' # table
    /\ modified' = Written
    /\ UNCHANGED <<vtab, held, fetch, rendered, cacheVars, phase, bindData, done, last_key, emitted, nbatches,
                   ncalls, failed, lastCall, prior, threadVars, schemaVars>>

\* tx.delete(collection, key); commit.
Delete(k) ==
    /\ table.exists
    /\ k \in DOMAIN table.rows
    /\ table' = [ table EXCEPT !.rows = [ x \in DOMAIN table.rows \ {k} |->
                                            table.rows[x] ] ]
    /\ modified' = Written
    /\ UNCHANGED <<vtab, held, fetch, rendered, cacheVars, phase, bindData, done, last_key, emitted, nbatches,
                   ncalls, failed, lastCall, prior, threadVars, schemaVars>>

(***************************************************************************)
(* Initial conditions.                                                     *)
(***************************************************************************)
\* No read transaction and no cursor is open.
NoneHeld == [txs |-> 0, cursors |-> 0]

\* scan_*_batch has not been called.
NoFetch == [called |-> FALSE, start |-> None, b |-> NoBatch]

\* No value has been rendered.
NoRender == [called |-> FALSE, value |-> Val("Null", <<>>), entities |-> <<>>,
             edges |-> <<>>]

NoThreads ==
    /\ held = NoneHeld
    /\ fetch = NoFetch
    /\ rendered = NoRender
    /\ mutex = None
    /\ poisoned = FALSE
    /\ pc = [ t \in Threads |-> "idle" ]
    /\ arg = [ t \in Threads |-> ScanPath ]
    /\ local = [ t \in Threads |-> None ]
    /\ ret = [ t \in Threads |-> <<>> ]

NoSchema ==
    /\ discovery = NewDiscovery
    /\ observed = <<>>
    /\ schemaOut = <<>>
    /\ discovered = <<>>

NoScans(S) ==
    /\ phase = [ s \in S |-> "unbound" ]
    /\ bindData = [ s \in S |-> NoBind ]
    /\ done = [ s \in S |-> FALSE ]
    /\ last_key = [ s \in S |-> None ]
    /\ emitted = [ s \in S |-> <<>> ]
    /\ nbatches = [ s \in S |-> 0 ]
    /\ ncalls = [ s \in S |-> 0 ]
    /\ failed = [ s \in S |-> FALSE ]
    /\ modified = [ s \in S |-> FALSE ]
    /\ lastCall = [ s \in S |-> NoCall ]
    /\ prior = [ s \in S |-> None ]

EmptyCache ==
    /\ cache = <<>>
    /\ opened = [ p \in Paths |-> {} ]
    /\ nextHandle = 1

(***************************************************************************)
(* Spec: one table function scanning a collection nobody writes to; the    *)
(* host runs the query, and then runs it again.                            *)
(***************************************************************************)
Init ==
    /\ vtab \in {"entities", "edges"}
    /\ table \in Tables(ScanRecords)
    /\ EmptyCache
    /\ NoScans({"s1"})
    /\ NoThreads
    /\ NoSchema

Next ==
    \/ \E s \in DOMAIN phase : Bind(s)
    \/ \E s \in DOMAIN phase : InitScan(s)
    \/ \E s \in DOMAIN phase : Func(s)
    \/ \E s \in DOMAIN phase : Rescan(s)

Spec == Init /\ [][Next]_vars

\* The host makes a produce call on scan s: the guard of Func(s) and its count of
\* the call.  The steps of Next that raise ncalls[s] are the steps of Func(s).
HostCalls(s) ==
    /\ phase[s] = "ready"
    /\ ncalls[s] < MaxCalls
    /\ ncalls' = [ncalls EXCEPT ![s] = @ + 1]

\* The same, for a host that keeps calling produce on the invocation it opened
\* (DuckDB pulls chunks until it gets an empty one or an error).
SpecProgress == Spec /\ WF_ncalls(HostCalls("s1"))

(***************************************************************************)
(* SpecLive: a scan of a collection that other clients keep writing to.    *)
(***************************************************************************)
InitLive ==
    /\ vtab \in {"entities", "edges"}
    /\ table \in Tables(LiveRecords)
    /\ EmptyCache
    /\ NoScans({"s1"})
    /\ NoThreads
    /\ NoSchema

NextLive ==
    \/ \E s \in DOMAIN phase : Bind(s)
    \/ \E s \in DOMAIN phase : InitScan(s)
    \/ \E s \in DOMAIN phase : Func(s)
    \/ \E k \in Keys, rec \in LiveRecords : Put(k, rec)
    \/ \E k \in Keys : Delete(k)

SpecLive == InitLive /\ [][NextLive]_vars

(***************************************************************************)
(* SpecCache: get_cached_engine statement by statement, called by several  *)
(* threads (the binds and produce calls of concurrent scans).              *)
(***************************************************************************)
\* Error values: a type, and for the adapter's own DatabaseOpenError the path and
\* the source it wraps.
NoError == [type |-> "none", path |-> "", source |-> ""]

\* The storage engine's own error, as RedbEngine::open returns it.
EngineError == [type |-> "manifoldb_storage::Error", path |-> "", source |-> ""]

\* ManifoldScannerError::DatabaseOpenError { path, source }
DatabaseOpenError(path, source) ==
    [type |-> "ManifoldScannerError::DatabaseOpenError", path |-> path,
     source |-> source.type]

\* format!("Lock error: {}", e) boxed.
LockError == [type |-> "String", path |-> "", source |-> "Lock error"]

\* No value is returned: the call is left by unwinding.
Unwinding == [type |-> "panic", path |-> "", source |-> ""]

\* What `RedbEngine::open(db_path)?` hands to the caller of get_cached_engine:
\* the engine's error, boxed by the From conversion of `?` and otherwise as it is.
OpenFailure(db_path) == EngineError

\* Ok(engine) for the caller: the call's path and the handle.
Returned(t, ok, engine) ==
    ret' = [ret EXCEPT ![t] = Append(@, [path |-> arg[t], ok |-> ok, engine |-> engine,
                                         err |-> NoError])]

\* Err(err) for the caller (or the unwinding).
Failed(t, err) ==
    ret' = [ret EXCEPT ![t] = Append(@, [path |-> arg[t], ok |-> FALSE, engine |-> 0,
                                         err |-> err])]

\* A bind or func_inner on thread t calls get_cached_engine(db_path).
Call(t, db_path) ==
    /\ pc[t] = "idle"
    /\ Len(ret[t]) < MaxAcquires
    /\ arg' = [arg EXCEPT ![t] = db_path]
    /\ pc' = [pc EXCEPT ![t] = "lock"]
    /\ UNCHANGED <<storeVars, cacheVars, scanVars, schemaVars, mutex, poisoned, local, ret>>

\* Mutant of Lock: the cache is read and written without the mutex.
LockWithoutExclusion(t) ==
    /\ pc[t] = "lock"
    /\ pc' = [pc EXCEPT ![t] = "get"]
    /\ UNCHANGED <<storeVars, cacheVars, scanVars, schemaVars, mutex, poisoned, arg,
                   local, ret>>

\* get_engine_cache().lock().map_err(..)?  A poisoned mutex is an Err.
Lock(t) ==
    /\ pc[t] = "lock"
    /\ mutex = None
    /\ IF poisoned
       THEN /\ Failed(t, LockError)
            /\ pc' = [pc EXCEPT ![t] = "idle"]
            /\ UNCHANGED mutex
       ELSE /\ mutex' = Some(t)
            /\ pc' = [pc EXCEPT ![t] = "get"]
            /\ UNCHANGED ret
    /\ UNCHANGED <<storeVars, cacheVars, scanVars, schemaVars, poisoned, arg, local>>

\* if let Some(engine) = cache.get(db_path) { return Ok(Arc::clone(engine)); }
Get(t) ==
    /\ pc[t] = "get"
    /\ IF arg[t] \in DOMAIN cache
       THEN /\ Returned(t, TRUE, cache[arg[t]])
            /\ mutex' = None
            /\ pc' = [pc EXCEPT ![t] = "idle"]
       ELSE /\ pc' = [pc EXCEPT ![t] = "open"]
            /\ UNCHANGED <<mutex, ret>>
    /\ UNCHANGED <<storeVars, cacheVars, scanVars, schemaVars, poisoned, arg, local>>

\* Mutant of Open: the entry is inserted before the open is known to succeed
\* and is left behind when it fails.
OpenInsertsFirst(t) ==
    /\ pc[t] = "open"
    /\ cache' = [ x \in DOMAIN cache \cup {arg[t]} |->
                    IF x = arg[t] THEN nextHandle ELSE cache[x] ]
    /\ nextHandle' = nextHandle + 1
    /\ \E outcome \in {"ok", "err", "panic"} :
        IF outcome = "ok"
        THEN /\ local' = [local EXCEPT ![t] = Some(nextHandle)]
             /\ opened' = [opened EXCEPT ![arg[t]] = @ \cup {nextHandle}]
             /\ pc' = [pc EXCEPT ![t] = "insert"]
             /\ UNCHANGED <<mutex, poisoned, ret>>
        ELSE /\ Failed(t, IF outcome = "err" THEN OpenFailure(arg[t]) ELSE Unwinding)
             /\ mutex' = None
             /\ poisoned' = (poisoned \/ outcome = "panic")
             /\ pc' = [pc EXCEPT ![t] = "idle"]
             /\ UNCHANGED <<local, opened>>
    /\ UNCHANGED <<storeVars, scanVars, schemaVars, arg>>

\* let engine = Arc::new(RedbEngine::open(db_path)?);  The open succeeds, returns
\* Err (the guard is dropped on return) or panics (the guard is dropped by the
\* unwinding, which poisons the mutex).
Open(t) ==
    /\ pc[t] = "open"
    /\ \E outcome \in {"ok", "err", "panic"} :
        IF outcome = "ok"
        THEN /\ local' = [local EXCEPT ![t] = Some(nextHandle)]
             /\ opened' = [opened EXCEPT ![arg[t]] = @ \cup {nextHandle}]
             /\ nextHandle' = nextHandle + 1
             /\ pc' = [pc EXCEPT ![t] = "insert"]
             /\ UNCHANGED <<mutex, poisoned, ret>>
        ELSE /\ Failed(t, IF outcome = "err" THEN OpenFailure(arg[t]) ELSE Unwinding)
             /\ mutex' = None
             /\ poisoned' = (poisoned \/ outcome = "panic")
             /\ pc' = [pc EXCEPT ![t] = "idle"]
             /\ UNCHANGED <<local, opened, nextHandle>>
    /\ UNCHANGED <<storeVars, cache, scanVars, schemaVars, arg>>

\* cache.insert(db_path.to_string(), Arc::clone(&engine)); Ok(engine)
Insert(t) ==
    /\ pc[t] = "insert"
    /\ cache' = [ x \in DOMAIN cache \cup {arg[t]} |->
                    IF x = arg[t] THEN local[t][1] ELSE cache[x] ]
    /\ Returned(t, TRUE, local[t][1])
    /\ local' = [local EXCEPT ![t] = None]
    /\ mutex' = None
    /\ pc' = [pc EXCEPT ![t] = "idle"]
    /\ UNCHANGED <<storeVars, opened, nextHandle, scanVars, schemaVars, poisoned, arg>>

InitCache ==
    /\ vtab = "entities"
    /\ table = [exists |-> FALSE, rows |-> <<>>]
    /\ EmptyCache
    /\ NoScans({})
    /\ NoThreads
    /\ NoSchema

NextCache ==
    \/ \E t \in Threads, db_path \in Paths : Call(t, db_path)
    \/ \E t \in Threads : Lock(t)
    \/ \E t \in Threads : Get(t)
    \/ \E t \in Threads : Open(t)
    \/ \E t \in Threads : Insert(t)

SpecCache == InitCache /\ [][NextCache]_vars

(***************************************************************************)
(* SpecDiscover: over one collection nobody writes to, discover_*_schema   *)
(* is invoked once per run.                                                *)
(***************************************************************************)
\* discover_entity_schema(&engine) / discover_edge_schema(&engine).  io_ok:
\* begin_read and the cursor calls succeed; order: the iteration order of this
\* invocation's HashMap, kept as a ghost.
Discover(r) ==
    /\ r \notin DOMAIN discovered
    /\ \E io_ok \in BOOLEAN, order \in Orders :
        LET sch == DiscoverSchema(table, vtab, order)
            res == [ ok |-> sch.ok /\ io_ok,
                     columns |-> IF io_ok THEN sch.columns ELSE <<>>,
                     column_index |-> IF io_ok THEN sch.column_index ELSE <<>>,
                     reads |-> sch.reads,
                     sample_count |-> sch.sample_count,
                     order |-> order ]
        IN discovered' = [ x \in DOMAIN discovered \cup {r} |->
                             IF x = r THEN res ELSE discovered[x] ]
    /\ UNCHANGED <<storeVars, cacheVars, scanVars, threadVars, discovery, observed,
                   schemaOut>>

InitDiscover ==
    /\ vtab \in {"entities", "edges"}
    /\ table \in Tables(SchemaRecords)
    /\ EmptyCache
    /\ NoScans({})
    /\ NoThreads
    /\ NoSchema

NextDiscover == \E r \in Runs : Discover(r)

SpecDiscover == InitDiscover /\ [][NextDiscover]_vars

(***************************************************************************)
(* SpecSchema: one SchemaDiscovery / EdgeSchemaDiscovery object is fed     *)
(* property maps and finalized.                                            *)
(***************************************************************************)
\* discovery.observe_entity(&properties) / discovery.observe_edge(&properties)
ObserveRecord(properties) ==
    /\ schemaOut = None
    /\ Len(observed) < MaxObserve
    /\ discovery' = Observe(discovery, properties)
    /\ observed' = Append(observed, properties)
    /\ UNCHANGED <<storeVars, cacheVars, scanVars, threadVars, schemaOut, discovered>>

\* discovery.finalize(): consumes the object.
FinalizeDiscovery(order) ==
    /\ schemaOut = None
    /\ schemaOut' = Some(Finalize(discovery, vtab, order))
    /\ UNCHANGED <<storeVars, cacheVars, scanVars, threadVars, discovery, observed,
                   discovered>>

InitSchema ==
    /\ vtab \in {"entities", "edges"}
    /\ table = [exists |-> FALSE, rows |-> <<>>]
    /\ EmptyCache
    /\ NoScans({})
    /\ NoThreads
    /\ NoSchema

NextSchema ==
    \/ \E properties \in SchemaProps : ObserveRecord(properties)
    \/ \E order \in Orders : FinalizeDiscovery(order)

SpecSchema == InitSchema /\ [][NextSchema]_vars

(***************************************************************************)
(* SpecRace: the host calls produce from two threads on one invocation.    *)
(* func_inner is taken at its accesses to the shared scan state: the load  *)
(* of done, the locked read of last_key, and the store of done or the      *)
(* locked write of last_key.  The fetch and the projection work on the     *)
(* call's own transaction and output chunk.  The collection is static.     *)
(***************************************************************************)
Callers == {"t1", "t2"}

\* The call's return as the host sees it, with the continuation key it read.
Produced(t, res, scanned, start, rows) ==
    ret' = [ret EXCEPT ![t] = Append(@, [res |-> res, scanned |-> scanned,
                                         start |-> start, rows |-> rows])]

\* func_inner up to get_cached_engine: done.load(), then the engine.
FuncBegin(t, s) ==
    /\ pc[t] = "idle"
    /\ phase[s] = "ready"
    /\ ncalls[s] < MaxCalls
    /\ ncalls' = [ncalls EXCEPT ![s] = @ + 1]
    /\ IF done[s]
       THEN /\ Produced(t, "Ok", FALSE, None, <<>>)
            /\ UNCHANGED <<cacheVars, pc, local>>
       ELSE \E open_ok \in BOOLEAN :
            LET r == GetCachedEngine(cache, bindData[s].db_path, open_ok, nextHandle)
            IN /\ Acquire(r, bindData[s].db_path)
               /\ IF r.ok
                  THEN /\ pc' = [pc EXCEPT ![t] = "read"]
                       /\ local' = [local EXCEPT ![t] = Some([scan |-> s])]
                       /\ UNCHANGED ret
                  ELSE /\ Produced(t, "Err", FALSE, None, <<>>)
                       /\ UNCHANGED <<pc, local>>
    /\ UNCHANGED <<storeVars, phase, bindData, done, last_key, emitted, nbatches, failed,
                   modified, lastCall, prior, mutex, poisoned, arg, schemaVars>>

\* let start_after_key = init_data.last_key.lock().unwrap().clone(); and the
\* fetch from it, scan_*_batch(&engine, start_after_key, BATCH_SIZE).
FuncRead(t) ==
    /\ pc[t] = "read"
    /\ LET s == local[t][1].scan
           start_after_key == last_key[s]
       IN local' = [local EXCEPT ![t] =
                      Some([scan |-> s, start |-> start_after_key,
                            b |-> ScanBatch(table, start_after_key, BATCH_SIZE)])]
    /\ pc' = [pc EXCEPT ![t] = "update"]
    /\ UNCHANGED <<storeVars, cacheVars, scanVars, mutex, poisoned, arg, ret, schemaVars>>

\* if entities.is_empty() { done.store(true) ... } else
\* { *init_data.last_key.lock().unwrap() = next_key; populate; set_len }
FuncUpdate(t) ==
    /\ pc[t] = "update"
    /\ LET s == local[t][1].scan
           b == local[t][1].b
           out == PopulateOutput(b.recs, bindData[s].column_index, vtab)
       IN IF b.recs = <<>>
          THEN /\ done' = [done EXCEPT ![s] = TRUE]
               /\ Produced(t, "Ok", TRUE, local[t][1].start, <<>>)
               /\ UNCHANGED <<last_key, emitted, nbatches, failed>>
          ELSE /\ last_key' = [last_key EXCEPT ![s] = b.last_key]
               /\ IF out.ok
                  THEN /\ emitted' = [emitted EXCEPT ![s] = @ \o KeysOf(b.recs)]
                       /\ nbatches' = [nbatches EXCEPT ![s] = @ + 1]
                       /\ Produced(t, "Ok", TRUE, local[t][1].start, KeysOf(b.recs))
                       /\ UNCHANGED failed
                  ELSE /\ failed' = [failed EXCEPT ![s] = TRUE]
                       /\ Produced(t, "Err", TRUE, local[t][1].start, <<>>)
                       /\ UNCHANGED <<emitted, nbatches>>
               /\ UNCHANGED done
    /\ local' = [local EXCEPT ![t] = None]
    /\ pc' = [pc EXCEPT ![t] = "idle"]
    /\ UNCHANGED <<storeVars, cacheVars, phase, bindData, ncalls, modified, lastCall,
                   prior, mutex, poisoned, arg, schemaVars>>

InitRace ==
    /\ vtab \in {"entities", "edges"}
    /\ table \in Tables(LiveRecords)
    /\ EmptyCache
    /\ NoScans({"s1"})
    /\ NoThreads
    /\ NoSchema

NextRace ==
    \/ \E s \in DOMAIN phase : Bind(s)
    \/ \E s \in DOMAIN phase : InitScan(s)
    \/ \E t \in Callers, s \in DOMAIN phase : FuncBegin(t, s)
    \/ \E t \in Callers : FuncRead(t)
    \/ \E t \in Callers : FuncUpdate(t)

SpecRace == InitRace /\ [][NextRace]_vars

(***************************************************************************)
(* SpecTwo: two invocations over the same path and the same static         *)
(* collection; the host interleaves their binds, inits and produce calls.  *)
(***************************************************************************)
InitTwo ==
    /\ vtab \in {"entities", "edges"}
    /\ table \in Tables(LiveRecords)
    /\ EmptyCache
    /\ NoScans({"s1", "s2"})
    /\ NoThreads
    /\ NoSchema

NextTwo ==
    \/ \E s \in DOMAIN phase : Bind(s)
    \/ \E s \in DOMAIN phase : InitScan(s)
    \/ \E s \in DOMAIN phase : Func(s)

SpecTwo == InitTwo /\ [][NextTwo]_vars

(***************************************************************************)
(* SpecTx: bind and func with the lifetime of the read transaction and the *)
(* cursor of discover_*_schema and scan_*_batch.  Both functions have the  *)
(* same shape: let tx = engine.begin_read()?; match tx.cursor(..) { Ok =>  *)
(* reads, Err => nothing }; return, where the cursor and then tx go out of *)
(* scope on every path (return, `?`, unwinding).  The host calls from one  *)
(* thread; the collection is static.                                       *)
(***************************************************************************)
HostThread == "t1"

\* Where a storage error strikes: nowhere, in begin_read, in a cursor read.
IoFaults == {"ok", "begin_read", "read"}

\* The ghost record of a finished call: whether it entered discover_*_schema /
\* scan_*_batch, the storage error it met there, the transactions it began, and
\* what was open when it returned.
Finished(t, op, res, entered, io, begun) ==
    ret' = [ret EXCEPT ![t] = <<[op |-> op, res |-> res, entered |-> entered,
                                 io |-> io, begun |-> begun, held_after |-> held']>>]

\* What func does to the scan state and reports, given func_inner's outcome o.
ApplyFunc(s, o, fault) ==
    LET c == CatchUnwind(o, vtab)
        delivered == IF c.res = "Ok" THEN o.rows ELSE <<>>
    IN /\ done' = [done EXCEPT ![s] = o.done]
       /\ last_key' = [last_key EXCEPT ![s] = o.last_key]
       /\ emitted' = [emitted EXCEPT ![s] = @ \o delivered]
       /\ nbatches' = [nbatches EXCEPT ![s] = IF delivered # <<>> THEN @ + 1 ELSE @]
       /\ failed' = [failed EXCEPT ![s] = @ \/ c.res # "Ok"]
       /\ lastCall' = [lastCall EXCEPT ![s] =
            [ op |-> "func", res |-> c.res, msg |-> c.msg, rows |-> delivered,
              cells |-> IF c.res = "Ok" THEN o.cells ELSE <<>>,
              fault |-> fault, acquired |-> o.acquired, txs |-> o.txs,
              reads |-> o.reads, was_done |-> done[s], start |-> last_key[s],
              scanned |-> o.scanned, fetched |-> o.fetched,
              panicked |-> o.res = "Panic", unwound |-> c.unwound ]]

\* bind up to the call of discover_*_schema.
TxBind(t, s) ==
    /\ pc[t] = "idle"
    /\ phase[s] = "unbound"
    /\ \E open_ok \in BOOLEAN, io \in IoFaults, order \in Orders :
        LET r == GetCachedEngine(cache, ScanPath, open_ok, nextHandle)
        IN /\ Acquire(r, ScanPath)
           /\ IF r.ok
              THEN /\ pc' = [pc EXCEPT ![t] = "begin_read"]
                   /\ local' = [local EXCEPT ![t] =
                        Some([op |-> "bind", scan |-> s, io |-> io, order |-> order,
                              begun |-> 0])]
                   /\ UNCHANGED <<lastCall, ret, held>>
              ELSE /\ lastCall' = [lastCall EXCEPT ![s] =
                        [NoCall EXCEPT !.op = "bind", !.res = "Err", !.fault = "open",
                                       !.msg = "open", !.acquired = TRUE]]
                   /\ held' = held
                   /\ Finished(t, "bind", "Err", FALSE, "ok", 0)
                   /\ UNCHANGED <<pc, local>>
    /\ UNCHANGED <<vtab, table, fetch, rendered, phase, bindData, done, last_key, emitted, nbatches,
                   ncalls, failed, modified, prior, mutex, poisoned, arg, schemaVars>>

\* func, func_inner up to the call of scan_*_batch.
TxFunc(t, s) ==
    /\ pc[t] = "idle"
    /\ phase[s] = "ready"
    /\ ncalls[s] < MaxCalls
    /\ ncalls' = [ncalls EXCEPT ![s] = @ + 1]
    /\ \E fault \in FaultsFor(s), open_ok \in BOOLEAN, io \in IoFaults :
        LET r == GetCachedEngine(cache, bindData[s].db_path, open_ok, nextHandle)
            o == FuncInner(s, fault, r)
        IN /\ (fault = "storage") = (io # "ok")
           /\ IF o.acquired THEN Acquire(r, bindData[s].db_path)
                            ELSE UNCHANGED cacheVars
           /\ IF done[s] \/ ~r.ok
              THEN /\ ApplyFunc(s, o, fault)
                   /\ held' = held
                   /\ Finished(t, "func", CatchUnwind(o, vtab).res, FALSE, "ok", 0)
                   /\ UNCHANGED <<pc, local>>
              ELSE /\ pc' = [pc EXCEPT ![t] = "begin_read"]
                   /\ local' = [local EXCEPT ![t] =
                        Some([op |-> "func", scan |-> s, io |-> io, fault |-> fault,
                              o |-> o, begun |-> 0])]
                   /\ UNCHANGED <<done, last_key, emitted, nbatches, failed, lastCall,
                                  ret, held>>
    /\ UNCHANGED <<vtab, table, fetch, rendered, phase, bindData, modified, prior, mutex, poisoned, arg,
                   schemaVars>>

\* let tx = engine.begin_read()?;
TxBeginRead(t) ==
    /\ pc[t] = "begin_read"
    /\ IF local[t][1].io = "begin_read"
       THEN /\ pc' = [pc EXCEPT ![t] = "finish"]
            /\ UNCHANGED <<held, local>>
       ELSE /\ held' = [held EXCEPT !.txs = @ + 1]
            /\ local' = [local EXCEPT ![t] = Some([local[t][1] EXCEPT !.begun = @ + 1])]
            /\ pc' = [pc EXCEPT ![t] = "cursor"]
    /\ UNCHANGED <<vtab, table, fetch, rendered, cacheVars, scanVars, mutex, poisoned, arg, ret,
                   schemaVars>>

\* match tx.cursor("nodes" / "edges"): Ok(cursor) when the collection exists.
TxCursor(t) ==
    /\ pc[t] = "cursor"
    /\ held' = IF table.exists THEN [held EXCEPT !.cursors = @ + 1] ELSE held
    /\ pc' = [pc EXCEPT ![t] = "return"]
    /\ UNCHANGED <<vtab, table, fetch, rendered, cacheVars, scanVars, mutex, poisoned, arg, local, ret,
                   schemaVars>>

\* Mutant of TxReturn: the transaction outlives a call that ends in an error or
\* a panic (its handle is not owned by a local).
TxReturnLeaksOnError(t) ==
    /\ pc[t] = "return"
    /\ LET l == local[t][1]
           bad == l.io = "read" \/ (l.op = "func" /\ l.o.res # "Ok")
       IN held' = [txs |-> IF bad THEN held.txs ELSE held.txs - 1,
                   cursors |-> IF table.exists THEN held.cursors - 1 ELSE held.cursors]
    /\ pc' = [pc EXCEPT ![t] = "finish"]
    /\ UNCHANGED <<vtab, table, fetch, rendered, cacheVars, scanVars, mutex, poisoned, arg, local, ret,
                   schemaVars>>

\* The reads through the cursor and the end of discover_*_schema / scan_*_batch:
\* by return, by `?` or by unwinding, the cursor and then tx are dropped.
TxReturn(t) ==
    /\ pc[t] = "return"
    /\ held' = [txs |-> held.txs - 1,
                cursors |-> IF table.exists THEN held.cursors - 1 ELSE held.cursors]
    /\ pc' = [pc EXCEPT ![t] = "finish"]
    /\ UNCHANGED <<vtab, table, fetch, rendered, cacheVars, scanVars, mutex, poisoned, arg, local, ret,
                   schemaVars>>

\* The rest of bind (register the columns, build the bind data) or of func_inner
\* (done / last_key, populate, set_len) and func (catch_unwind).
TxFinish(t) ==
    /\ pc[t] = "finish"
    /\ held' = held
    /\ LET l == local[t][1]
           s == l.scan
       IN IF l.op = "bind"
          THEN LET sch == DiscoverSchema(table, vtab, l.order) IN
               /\ IF l.io = "ok" /\ sch.ok
                  THEN /\ phase' = [phase EXCEPT ![s] = "bound"]
                       /\ bindData' = [bindData EXCEPT ![s] =
                            [ db_path |-> ScanPath,
                              columns |-> sch.columns,
                              column_index |-> sch.column_index,
                              registered |-> [ i \in 1..Len(sch.columns) |->
                                  <<sch.columns[i].name, sch.columns[i].column_type>> ],
                              reads |-> sch.reads,
                              sample_count |-> sch.sample_count ]]
                       /\ lastCall' = [lastCall EXCEPT ![s] =
                            [NoCall EXCEPT !.op = "bind", !.acquired = TRUE, !.txs = 1,
                                           !.reads = sch.reads]]
                       /\ Finished(t, "bind", "Ok", TRUE, l.io, l.begun)
                  ELSE /\ lastCall' = [lastCall EXCEPT ![s] =
                            [NoCall EXCEPT !.op = "bind", !.res = "Err",
                                           !.fault = "storage", !.msg = "storage",
                                           !.acquired = TRUE, !.txs = l.begun]]
                       /\ Finished(t, "bind", "Err", TRUE, l.io, l.begun)
                       /\ UNCHANGED <<phase, bindData>>
               /\ UNCHANGED <<done, last_key, emitted, nbatches, failed>>
          ELSE /\ ApplyFunc(s, l.o, l.fault)
               /\ Finished(t, "func", CatchUnwind(l.o, vtab).res, TRUE, l.io, l.begun)
               /\ UNCHANGED <<phase, bindData>>
    /\ local' = [local EXCEPT ![t] = None]
    /\ pc' = [pc EXCEPT ![t] = "idle"]
    /\ UNCHANGED <<vtab, table, fetch, rendered, cacheVars, ncalls, modified, prior, mutex, poisoned, arg,
                   schemaVars>>

\* bind succeeded; the host calls init.
TxInitScan(s) ==
    /\ pc[HostThread] = "idle"
    /\ InitScan(s)

InitTx ==
    /\ vtab \in {"entities", "edges"}
    /\ table \in Tables(ScanRecords)
    /\ EmptyCache
    /\ NoScans({"s1"})
    /\ NoThreads
    /\ NoSchema

NextTx ==
    \/ \E s \in DOMAIN phase : TxBind(HostThread, s)
    \/ \E s \in DOMAIN phase : TxInitScan(s)
    \/ \E s \in DOMAIN phase : TxFunc(HostThread, s)
    \/ TxBeginRead(HostThread)
    \/ TxCursor(HostThread)
    \/ TxReturn(HostThread)
    \/ TxFinish(HostThread)

SpecTx == InitTx /\ [][NextTx]_vars

(***************************************************************************)
(* SpecNull: a scan of a collection nobody writes to, whose records carry  *)
(* a property with the Null value, with another value, or not at all.      *)
(***************************************************************************)
InitNull ==
    /\ vtab \in {"entities", "edges"}
    /\ table \in Tables(NullRecords)
    /\ EmptyCache
    /\ NoScans({"s1"})
    /\ NoThreads
    /\ NoSchema

NextNull ==
    \/ \E s \in DOMAIN phase : Bind(s)
    \/ \E s \in DOMAIN phase : InitScan(s)
    \/ \E s \in DOMAIN phase : Func(s)

SpecNull == InitNull /\ [][NextNull]_vars

(***************************************************************************)
(* SpecBatch: scan_entity_batch / scan_edge_batch as a function of the     *)
(* collection and the continuation key.  func_inner passes BATCH_SIZE and  *)
(* None or a key an earlier batch returned; other clients may have deleted *)
(* that key since, so every key is a possible argument.                    *)
(***************************************************************************)
StartKeys == {None} \cup { Some(k) : k \in Keys }

\* scan_entity_batch(&engine, start_after_key, BATCH_SIZE)
ScanCall(start_after_key) ==
    /\ fetch' = [called |-> TRUE, start |-> start_after_key,
                 b |-> ScanBatch(table, start_after_key, BATCH_SIZE)]
    /\ UNCHANGED <<vtab, table, held, rendered, cacheVars, scanVars, threadVars,
                   schemaVars>>

InitBatch ==
    /\ vtab \in {"entities", "edges"}
    /\ table \in Tables(ScanRecords)
    /\ EmptyCache
    /\ NoScans({"s1"})
    /\ NoThreads
    /\ NoSchema

NextBatch == \E start_after_key \in StartKeys : ScanCall(start_after_key)

SpecBatch == InitBatch /\ [][NextBatch]_vars

(***************************************************************************)
(* SpecRender: the two value_to_duckdb_string functions applied to the     *)
(* same property value.                                                    *)
(***************************************************************************)
\* Payloads: sequences of at most MaxLen elements.
SeqsOf(S) == UNION { [1..n -> S] : n \in 0..MaxLen }

\* The property values rendered: every variant, with bytes from both ends of
\* the range and strings that need no escape and that need one.
RenderValues ==
    { Val("Null", <<>>) } \cup
    { Val("Bool", <<b>>) : b \in {0, 1} } \cup
    { Val("Int", <<n>>) : n \in {0, 7, 30} } \cup
    { Val("Float", <<n>>) : n \in {0, 2} } \cup
    { Val("String", t) : t \in SeqsOf({65, 34}) } \cup
    { Val("Bytes", b) : b \in SeqsOf({0, 77, 255}) } \cup
    { Val("Array", a) : a \in SeqsOf({1, 2}) } \cup
    { Val("Vector", v) : v \in SeqsOf({1, 2}) } \cup
    { Val("SparseVector", v) : v \in SeqsOf({1}) } \cup
    { Val("MultiVector", v) : v \in SeqsOf({1}) }

\* populate_entity_output and populate_edge_output each render the value.
Render(value) ==
    /\ rendered' = [called |-> TRUE, value |-> value,
                    entities |-> entity_value_to_duckdb_string(value),
                    edges |-> edge_value_to_duckdb_string(value)]
    /\ UNCHANGED <<vtab, table, held, fetch, cacheVars, scanVars, threadVars,
                   schemaVars>>

InitRender ==
    /\ vtab \in {"entities", "edges"}
    /\ table = [exists |-> FALSE, rows |-> <<>>]
    /\ EmptyCache
    /\ NoScans({})
    /\ NoThreads
    /\ NoSchema

NextRender == \E value \in RenderValues : Render(value)

SpecRender == InitRender /\ [][NextRender]_vars

(***************************************************************************)
(* What the collection holds, stated without the cursor.                   *)
(***************************************************************************)
DecodableKeys(tbl) == { k \in DOMAIN tbl.rows : tbl.rows[k].dec }

AllDecodable(tbl) == \A k \in DOMAIN tbl.rows : tbl.rows[k].dec

\* The keys of S in ascending order.
Ascending(S) ==
    CHOOSE q \in [1..Cardinality(S) -> S] : \A i, j \in 1..Cardinality(S) :
        i < j => q[i] < q[j]

Take(q, n) == SubSeq(q, 1, IF n < Len(q) THEN n ELSE Len(q))

CeilDiv(n, b) == (n + b - 1) \div b

IsScan(s) == phase[s] = "ready"

(***************************************************************************)
(* C1  Pagination completeness.  Over a collection of N records, all       *)
(* decodable, that nobody writes to, a scan none of whose produce calls    *)
(* reported an error delivers the records in key order in full batches of  *)
(* BATCH_SIZE (the last one may be short): ceil(N/B) non-empty batches     *)
(* summing to N, then one empty batch on call ceil(N/B)+1, which sets      *)
(* done; a second scan from scratch delivers the same rows in the same     *)
(* order.                                                                  *)
(***************************************************************************)
C1_PaginationCompleteness ==
    \A s \in DOMAIN phase :
        (IsScan(s) /\ ~failed[s] /\ ~modified[s] /\ AllDecodable(table)) =>
            LET all == Ascending(DOMAIN table.rows)
                N == Len(all)
                full == BATCH_SIZE * nbatches[s]
            IN /\ emitted[s] = Take(all, full)
               /\ ~done[s] => nbatches[s] = ncalls[s]
               /\ done[s] =>
                    /\ emitted[s] = all
                    /\ nbatches[s] = CeilDiv(N, BATCH_SIZE)
                    /\ ncalls[s] >= nbatches[s] + 1
                    /\ ~lastCall[s].was_done => ncalls[s] = CeilDiv(N, BATCH_SIZE) + 1
                    /\ lastCall[s].res = "Ok" /\ lastCall[s].rows = <<>>
                    /\ prior[s] # None => emitted[s] = prior[s][1]

\* A second complete scan of three or more records, the last batch a short one.
C1_Witness ==
    \E s \in DOMAIN phase :
        /\ IsScan(s) /\ done[s] /\ ~failed[s] /\ AllDecodable(table)
        /\ prior[s] # None
        /\ nbatches[s] >= 2
        /\ Len(emitted[s]) % BATCH_SIZE # 0

(***************************************************************************)
(* C2  Resumability.  On a collection nobody writes to, a batch fetched    *)
(* with a continuation key k (the last key of the batch before) holds      *)
(* exactly the next BATCH_SIZE decodable records after k in key order: it  *)
(* starts at the smallest decodable key greater than k, repeats nothing    *)
(* at or below k and skips nothing.                                        *)
(***************************************************************************)
C2_Resumability ==
    \A s \in DOMAIN phase :
        (IsScan(s) /\ ~modified[s] /\ lastCall[s].op = "func"
            /\ lastCall[s].scanned /\ lastCall[s].start # None) =>
            LET k == lastCall[s].start[1]
                rest == Ascending({ x \in DecodableKeys(table) : x > k })
            IN /\ lastCall[s].fetched = Take(rest, BATCH_SIZE)
               /\ k \in DecodableKeys(table)

\* A second batch that is not empty.
C2_Witness ==
    \E s \in DOMAIN phase :
        /\ IsScan(s) /\ lastCall[s].op = "func" /\ lastCall[s].scanned
        /\ lastCall[s].start # None
        /\ lastCall[s].fetched # <<>>
        /\ lastCall[s].res = "Ok"

(***************************************************************************)
(* C5  Decode failures are absorbed.  Whatever records of the collection   *)
(* fail to decode, a produce call returns an error only for an injected    *)
(* fault or a projection failure, never for a decode failure; the rows     *)
(* delivered are decodable records, each once, in key order, and a scan    *)
(* that completes without a reported error has delivered exactly the       *)
(* decodable records.                                                      *)
(***************************************************************************)
C5_DecodeFailuresAbsorbed ==
    \A s \in DOMAIN phase :
        (IsScan(s) /\ ~modified[s]) =>
            LET good == Ascending(DecodableKeys(table)) IN
            /\ (lastCall[s].op = "func" /\ lastCall[s].res = "Err") =>
                  (lastCall[s].fault # "none" \/ lastCall[s].msg = "nul")
            /\ ~failed[s] => emitted[s] = Take(good, Len(emitted[s]))
            /\ (done[s] /\ ~failed[s]) => emitted[s] = good

\* A complete scan of a collection whose first and last records do not decode.
C5_Witness ==
    \E s \in DOMAIN phase :
        /\ IsScan(s) /\ done[s] /\ ~failed[s]
        /\ emitted[s] # <<>>
        /\ 1 \in DOMAIN table.rows /\ ~table.rows[1].dec
        /\ MaxKey \in DOMAIN table.rows /\ ~table.rows[MaxKey].dec

(***************************************************************************)
(* C6  An absent collection is not an error.  When the collection does     *)
(* not exist, a bind whose open and reads succeed returns Ok and publishes *)
(* exactly the base schema (no property column), and the first produce     *)
(* call returns an empty batch without an error and sets done.             *)
(***************************************************************************)
BaseSchema(kind) ==
    [ i \in 1..Len(FixedNames(kind)) |-> <<FixedNames(kind)[i], "Varchar">> ]

C6_AbsentCollection ==
    ~table.exists =>
        \A s \in DOMAIN phase :
            /\ (lastCall[s].op = "bind" /\ lastCall[s].fault = "none") =>
                  lastCall[s].res = "Ok" /\ phase[s] \in {"bound", "ready"}
            /\ phase[s] \in {"bound", "ready"} =>
                  /\ bindData[s].registered = BaseSchema(vtab)
                  /\ Len(bindData[s].columns) = Len(FixedNames(vtab))
                  /\ DOMAIN bindData[s].column_index =
                        { FixedNames(vtab)[i] : i \in 1..Len(FixedNames(vtab)) }
            /\ (lastCall[s].op = "func"
                    /\ lastCall[s].fault \in {"none", "panic_populate"}) =>
                  /\ lastCall[s].res = "Ok"
                  /\ lastCall[s].rows = <<>>
                  /\ done[s]

\* The first produce call of manifold_edges on a database without "edges".
C6_Witness ==
    \E s \in DOMAIN phase :
        /\ ~table.exists /\ vtab = "edges"
        /\ IsScan(s) /\ ncalls[s] = 1 /\ done[s]
        /\ lastCall[s].res = "Ok"

(***************************************************************************)
(* C10  Fault containment.  When func_inner panics, func returns           *)
(* Err("Internal panic in manifold_entities" / "..._edges"); no panic      *)
(* leaves func.                                                            *)
(***************************************************************************)
C10_FaultContainment ==
    \A s \in DOMAIN phase :
        /\ ~lastCall[s].unwound
        /\ lastCall[s].panicked =>
              /\ lastCall[s].res = "Err"
              /\ lastCall[s].msg = PanicMessage(vtab)

\* A panic inside the projection, after the continuation key was stored.
C10_Witness ==
    \E s \in DOMAIN phase :
        /\ lastCall[s].panicked
        /\ lastCall[s].fault = "panic_populate"
        /\ last_key[s] # lastCall[s].start

(***************************************************************************)
(* C4  Idempotent exhaustion.  A produce call that returns an empty batch  *)
(* sets done, and every produce call that finds done set returns Ok with   *)
(* an empty output, without calling get_cached_engine, beginning a         *)
(* transaction or reading a cursor, and leaves done set, also when records *)
(* were added to the collection since.  (Checked under SpecLive.)          *)
(***************************************************************************)
C4_IdempotentExhaustion ==
    \A s \in DOMAIN phase :
        (IsScan(s) /\ lastCall[s].op = "func") =>
            /\ (lastCall[s].res = "Ok" /\ lastCall[s].rows = <<>>) => done[s]
            /\ lastCall[s].was_done =>
                  /\ lastCall[s].res = "Ok"
                  /\ lastCall[s].rows = <<>>
                  /\ ~lastCall[s].acquired
                  /\ lastCall[s].txs = 0
                  /\ lastCall[s].reads = 0
                  /\ ~lastCall[s].scanned
                  /\ done[s]
                  /\ last_key[s] = lastCall[s].start

\* A call on an exhausted scan while the collection holds a record a fetch
\* would return.
C4_Witness ==
    \E s \in DOMAIN phase :
        /\ IsScan(s) /\ lastCall[s].op = "func" /\ lastCall[s].was_done
        /\ modified[s]
        /\ ScanBatch(table, last_key[s], BATCH_SIZE).recs # <<>>

(***************************************************************************)
(* C3  Handle cache uniqueness.  Under every interleaving of               *)
(* get_cached_engine calls, failed opens included, the storage of a path   *)
(* is opened successfully at most once, the cache holds that handle, and   *)
(* every successful call for the path, past or present, returned the       *)
(* handle the cache holds now: an entry is never removed or replaced.      *)
(* (Checked under SpecCache.)                                              *)
(***************************************************************************)
C3_HandleCacheUniqueness ==
    /\ \A p \in Paths : Cardinality(opened[p]) <= 1
    /\ \A p \in DOMAIN cache : cache[p] \in opened[p]
    /\ \A t \in Threads : \A i \in 1..Len(ret[t]) :
          ret[t][i].ok =>
              /\ ret[t][i].path \in DOMAIN cache
              /\ cache[ret[t][i].path] = ret[t][i].engine

\* Two threads hold the handle of one path, after an open of that path failed.
C3_Witness ==
    \E t, u \in Threads : \E i \in 1..Len(ret[t]) : \E j, k \in 1..Len(ret[u]) :
        /\ t # u
        /\ ret[t][i].ok /\ ret[u][j].ok /\ ~ret[u][k].ok
        /\ ret[t][i].path = ret[u][j].path
        /\ ret[u][k].path = ret[u][j].path
        /\ k < j

\* The fixed columns of the kind, then prop_ columns in strictly ascending
\* lexicographic order of the property name.
FixedThenLexicographic(columns, kind) ==
    LET n == Len(FixedNames(kind)) IN
    /\ Len(columns) >= n
    /\ \A i \in 1..n : columns[i].name = FixedNames(kind)[i]
    /\ \A i \in (n + 1)..Len(columns) : columns[i].name.pre = "prop_"
    /\ \A i, j \in (n + 1)..Len(columns) :
          i < j => LexLess(columns[i].name.nm, columns[j].name.nm)

\* The property names the records of the sequence carry.
ObservedNames(seq) == UNION { DOMAIN seq[i] : i \in 1..Len(seq) }

(***************************************************************************)
(* C7  Schema determinism.  Over a fixed collection, any two invocations   *)
(* of discovery that succeed return the same ordered column list, whatever *)
(* order their property maps iterate in: the fixed columns followed by the *)
(* property columns in lexicographic order of property name.               *)
(* (Checked under SpecDiscover.)                                           *)
(***************************************************************************)
C7_SchemaDeterminism ==
    /\ \A r, q \in DOMAIN discovered :
          (discovered[r].ok /\ discovered[q].ok) =>
              /\ discovered[r].columns = discovered[q].columns
              /\ discovered[r].column_index = discovered[q].column_index
    /\ \A r \in DOMAIN discovered :
          discovered[r].ok => FixedThenLexicographic(discovered[r].columns, vtab)

\* Both runs succeeded over a collection with three property names, their
\* property maps iterating in different orders.
C7_Witness ==
    /\ DOMAIN discovered = Runs
    /\ \A r \in Runs :
          /\ discovered[r].ok
          /\ Len(discovered[r].columns) = Len(FixedNames(vtab)) + 3
    /\ discovered["r1"].order # discovered["r2"].order

C9_SampleBound ==
    \A r \in DOMAIN discovered :
        /\ discovered[r].reads <= SCHEMA_SAMPLE_SIZE
        /\ discovered[r].reads <= Cardinality(DOMAIN table.rows)
        /\ discovered[r].sample_count <= discovered[r].reads
        /\ Cardinality(DOMAIN table.rows) < SCHEMA_SAMPLE_SIZE =>
              /\ discovered[r].sample_count = Cardinality(DecodableKeys(table))
              /\ AllDecodable(table) =>
                    discovered[r].sample_count = Cardinality(DOMAIN table.rows)

\* A non-empty collection smaller than the sample bound, all records decodable,
\* was sampled in full.
C9_Witness ==
    \E r \in DOMAIN discovered :
        /\ discovered[r].ok
        /\ table.exists
        /\ AllDecodable(table)
        /\ Cardinality(DOMAIN table.rows) >= 1
        /\ Cardinality(DOMAIN table.rows) < SCHEMA_SAMPLE_SIZE
        /\ discovered[r].sample_count = Cardinality(DOMAIN table.rows)
        /\ discovered[r].reads = Cardinality(DOMAIN table.rows)

\* The keys of the records discovery decodes: those among the first
\* SCHEMA_SAMPLE_SIZE entries of the collection.
SampledKeys(tbl) ==
    LET q == Take(Ascending(DOMAIN tbl.rows), SCHEMA_SAMPLE_SIZE)
    IN { q[i] : i \in 1..Len(q) } \cap DecodableKeys(tbl)

\* Some property value of the record at key k renders to a text with a NUL byte.
CarriesNul(tbl, k) ==
    \E n \in DOMAIN tbl.rows[k].props :
        CStringNewFails(value_to_duckdb_string(tbl.rows[k].props[n]))

(***************************************************************************)
(* C11  Schema evolution.  If a sampled record has property P, the schema  *)
(* has the column prop_P.  In every row a produce call emits for a record  *)
(* without property P, the cell of prop_P is not written, while the        *)
(* structural cells and the cells of the properties the record has are     *)
(* written; and a produce call does not fail in projection unless a record *)
(* of its batch carries a value with a NUL byte: a missing property is     *)
(* never the cause of an error.  (Checked under Spec.)                     *)
(***************************************************************************)
C11_SchemaEvolution ==
    \A s \in DOMAIN phase :
        /\ phase[s] \in {"bound", "ready"} =>
              \A k \in SampledKeys(table) : \A P \in DOMAIN table.rows[k].props :
                  PropCol(P) \in DOMAIN bindData[s].column_index
        /\ (IsScan(s) /\ lastCall[s].op = "func") =>
              LET ci == bindData[s].column_index
                  fixed == FixedNames(vtab)
              IN /\ lastCall[s].res = "Ok" =>
                      /\ Len(lastCall[s].cells) = Len(lastCall[s].rows)
                      /\ \A i \in 1..Len(lastCall[s].rows) :
                           LET props == table.rows[lastCall[s].rows[i]].props
                               written == DOMAIN lastCall[s].cells[i]
                           IN /\ \A j \in 1..Len(fixed) : ci[fixed[j]] \in written
                              /\ \A P \in PropNames :
                                   PropCol(P) \in DOMAIN ci =>
                                       (ci[PropCol(P)] \in written <=> P \in DOMAIN props)
                 /\ lastCall[s].msg = "nul" =>
                      \E i \in 1..Len(lastCall[s].fetched) :
                          CarriesNul(table, lastCall[s].fetched[i])

\* A batch of two rows under a schema with prop_a: one record has the property,
\* the other has not.
C11_Witness ==
    \E s \in DOMAIN phase :
        /\ IsScan(s) /\ lastCall[s].op = "func" /\ lastCall[s].res = "Ok"
        /\ PropCol(NameA) \in DOMAIN bindData[s].column_index
        /\ \E i, j \in 1..Len(lastCall[s].rows) :
              /\ NameA \in DOMAIN table.rows[lastCall[s].rows[i]].props
              /\ NameA \notin DOMAIN table.rows[lastCall[s].rows[j]].props
              /\ bindData[s].column_index[PropCol(NameA)] \in DOMAIN lastCall[s].cells[i]
              /\ bindData[s].column_index[PropCol(NameA)] \notin DOMAIN lastCall[s].cells[j]
              /\ DOMAIN lastCall[s].cells[j] # {}

(***************************************************************************)
(* C12  A failed open does not poison the cache.  The step in which the    *)
(* open inside get_cached_engine fails returns an error to the caller,     *)
(* leaves the cache map as it was, without an entry for the path, and      *)
(* releases the mutex; the cache changes only in the insert that follows a *)
(* successful open; and a call that finds no entry for its path attempts   *)
(* the open, so a later call for the same path opens again (the witness:   *)
(* and succeeds).  (Checked under SpecCache.)                              *)
(***************************************************************************)
C12_FailedOpenKeepsCache ==
    [][ \A t \in Threads :
          /\ (pc[t] = "open" /\ pc'[t] = "idle") =>
                /\ Len(ret'[t]) = Len(ret[t]) + 1
                /\ ~ret'[t][Len(ret'[t])].ok
                /\ ret'[t][Len(ret'[t])].path = arg[t]
                /\ cache' = cache
                /\ opened' = opened
                /\ arg[t] \notin DOMAIN cache'
                /\ mutex' = None
          /\ (pc[t] = "get" /\ pc'[t] # "get" /\ arg[t] \notin DOMAIN cache) =>
                pc'[t] = "open"
          /\ (pc[t] = "open" /\ pc'[t] = "insert") => arg[t] \notin DOMAIN cache
          /\ (cache' # cache /\ pc'[t] # pc[t]) =>
                /\ pc[t] = "insert"
                /\ ret'[t][Len(ret'[t])].ok ]_vars

\* A thread's open of a path failed, and its next call for the same path opened
\* the storage and returned the handle; no other thread has called.
C12_Witness ==
    \E t \in Threads :
        /\ Len(ret[t]) = 2
        /\ ~ret[t][1].ok /\ ret[t][2].ok
        /\ ret[t][1].path = ret[t][2].path
        /\ ~poisoned
        /\ opened[ret[t][2].path] = {ret[t][2].engine}
        /\ cache[ret[t][2].path] = ret[t][2].engine
        /\ \A u \in Threads \ {t} : ret[u] = <<>> /\ pc[u] = "idle"

\* The first n decodable keys of the collection above key k, ascending.
NextAfter(tbl, k, n) ==
    Take(Ascending({ x \in DecodableKeys(tbl) : x > k }), n)

(***************************************************************************)
(* C13  Resumption after the continuation key was removed.  A produce call *)
(* that finds its continuation key deleted from the collection fetches     *)
(* from the smallest remaining key above it: its batch is the next         *)
(* BATCH_SIZE records above the continuation key, none skipped.            *)
(* (Refuted under SpecLive: seek lands on the next key and the next() that *)
(* follows steps over it.)                                                 *)
(***************************************************************************)
C13_ResumeAfterDelete ==
    [][ \A s \in DOMAIN phase :
          ( /\ IsScan(s) /\ ncalls'[s] = ncalls[s] + 1
            /\ ~done[s]
            /\ last_key[s] # None
            /\ last_key[s][1] \notin DOMAIN table.rows
            /\ lastCall'[s].res = "Ok" ) =>
              lastCall'[s].fetched = NextAfter(table, last_key[s][1], BATCH_SIZE) ]_vars

\* The produce calls that fetched: (thread, index in its returns).
Fetches == { c \in Callers \X (1..MaxCalls) :
               c[2] <= Len(ret[c[1]]) /\ ret[c[1]][c[2]].scanned }

(***************************************************************************)
(* C14  Per-invocation state under concurrent produce calls.  With produce *)
(* called from two threads on one invocation, no two calls fetch from the  *)
(* same continuation key, no record is emitted by two calls, and the       *)
(* continuation key never moves back to a smaller key.                     *)
(* (Refuted under SpecRace: last_key is locked for the read and for the    *)
(* write separately, not across the fetch between them.)                   *)
(***************************************************************************)
C14_ExclusiveProduce ==
    /\ [](\A c, d \in Fetches :
             c # d => ret[c[1]][c[2]].start # ret[d[1]][d[2]].start)
    /\ [](\A s \in DOMAIN phase : \A i, j \in 1..Len(emitted[s]) :
             i # j => emitted[s][i] # emitted[s][j])
    /\ [][ \A s \in DOMAIN phase :
             (last_key[s] # None /\ phase'[s] = "ready" /\ phase[s] = "ready") =>
                 /\ last_key'[s] # None
                 /\ last_key'[s][1] >= last_key[s][1] ]_vars

\* Everything an invocation owns: its bind data, its init data, and the ghosts
\* of what it did.
Slot(s) == <<phase[s], bindData[s], done[s], last_key[s], emitted[s], nbatches[s],
             ncalls[s], failed[s], lastCall[s]>>

(***************************************************************************)
(* C15  Cross-invocation isolation.  With two invocations over the same    *)
(* path, a step of one invocation changes nothing the other owns; a        *)
(* produce call changes, of its own invocation's bind and init data, only  *)
(* the done flag and the continuation key, and leaves the collection       *)
(* alone; however the produce calls of the two interleave, each invocation *)
(* none of whose calls reported an error has, once done, emitted every     *)
(* decodable record exactly once, in key order; and both use the one       *)
(* handle of the cache.  (Checked under SpecTwo.)                          *)
(***************************************************************************)
C15_CrossInvocationIsolation ==
    /\ [][ \A s \in DOMAIN phase :
             /\ \A u \in DOMAIN phase \ {s} :
                   Slot(s)' # Slot(s) => Slot(u)' = Slot(u)
             /\ ncalls'[s] = ncalls[s] + 1 =>
                   /\ phase'[s] = phase[s]
                   /\ bindData'[s] = bindData[s]
                   /\ table' = table ]_vars
    /\ [](\A s \in DOMAIN phase :
             /\ (IsScan(s) /\ ~failed[s]) =>
                   \E n \in 0..Cardinality(DecodableKeys(table)) :
                       emitted[s] = Take(Ascending(DecodableKeys(table)), n)
             /\ (IsScan(s) /\ ~failed[s] /\ done[s]) =>
                   emitted[s] = Ascending(DecodableKeys(table)))
    /\ [](\A p \in Paths : Cardinality(opened[p]) <= 1)

\* Both invocations are in progress at once, and one of them then completes:
\* one has emitted all three records in two batches, the other its first batch.
C15_Witness ==
    /\ IsScan("s1") /\ IsScan("s2")
    /\ ~failed["s1"] /\ ~failed["s2"]
    /\ done["s1"] /\ nbatches["s1"] = 2
    /\ Len(emitted["s1"]) = BATCH_SIZE + 1
    /\ ~done["s2"] /\ nbatches["s2"] = 1
    /\ lastCall["s1"].start # None
    /\ lastCall["s1"].start # last_key["s2"]
    /\ Cardinality(opened[ScanPath]) = 1

(***************************************************************************)
(* C16  No resources held between calls.  Whenever no bind or produce call *)
(* is executing (after a success, an empty batch, an error or a caught     *)
(* panic; the host may stop calling at any such point), no read            *)
(* transaction and no cursor is open.  A call that enters discovery or a   *)
(* batch fetch begins exactly one read transaction (none when begin_read   *)
(* itself fails) and has closed it when it returns; a call that returns    *)
(* before (done already set, open failed) begins none.                     *)
(* (Checked under SpecTx.)                                                 *)
(***************************************************************************)
C16_NoResourcesBetweenCalls ==
    /\ held.txs \in {0, 1} /\ held.cursors \in {0, 1}
    /\ held.cursors <= held.txs
    /\ (\A t \in Threads : pc[t] = "idle") => held = NoneHeld
    /\ \A t \in Threads : \A i \in 1..Len(ret[t]) :
          LET e == ret[t][i] IN
          /\ e.held_after = NoneHeld
          /\ e.begun = (IF e.entered /\ e.io # "begin_read" THEN 1 ELSE 0)

\* The host is between calls after a produce call that failed in a cursor read
\* or panicked with its transaction and cursor open, following a delivered
\* batch: nothing is left open.
C16_Witness ==
    /\ pc[HostThread] = "idle"
    /\ held = NoneHeld
    /\ table.exists
    /\ emitted["s1"] # <<>>
    /\ ret[HostThread] # <<>>
    /\ ret[HostThread][1].op = "func"
    /\ ret[HostThread][1].res = "Err"
    /\ ret[HostThread][1].entered
    /\ ret[HostThread][1].begun = 1
    /\ lastCall["s1"].fault \in {"storage", "panic_scan"}

(***************************************************************************)
(* C17  Continuation key lifecycle.  The continuation key is None until a  *)
(* produce call has delivered a non-empty batch; it changes only in a      *)
(* produce call that succeeds with a non-empty batch; and a produce call   *)
(* that returns an error (storage fault, projection failure, caught panic) *)
(* leaves the continuation key and the done flag as they were.             *)
(* (Refuted under Spec: func_inner stores the key before the projection,   *)
(* which can still fail.)                                                  *)
(***************************************************************************)
C17_KeyLifecycle ==
    /\ [](\A s \in DOMAIN phase :
             (IsScan(s) /\ nbatches[s] = 0) => last_key[s] = None)
    /\ [][ \A s \in DOMAIN phase :
             (phase[s] = "ready" /\ phase'[s] = "ready") =>
                 /\ last_key'[s] # last_key[s] =>
                       /\ ncalls'[s] = ncalls[s] + 1
                       /\ lastCall'[s].res = "Ok"
                       /\ lastCall'[s].rows # <<>>
                 /\ (ncalls'[s] = ncalls[s] + 1 /\ lastCall'[s].res = "Err") =>
                       /\ last_key'[s] = last_key[s]
                       /\ done'[s] = done[s] ]_vars

(***************************************************************************)
(* C18  Record- and property-scoped problems never abort a batch.  A       *)
(* produce call whose fetch succeeded and that met no storage fault and no *)
(* panic returns Ok and emits every record it fetched, whatever property   *)
(* values the records carry.                                               *)
(* (Refuted under Spec: CString::new(..)? in populate_*_output returns Err *)
(* for a text with an interior NUL byte.)                                  *)
(***************************************************************************)
C18_ProjectionNeverAborts ==
    \A s \in DOMAIN phase :
        (IsScan(s) /\ lastCall[s].op = "func" /\ lastCall[s].scanned
                   /\ lastCall[s].fault = "none") =>
            /\ lastCall[s].res = "Ok"
            /\ lastCall[s].rows = lastCall[s].fetched

(***************************************************************************)
(* C19  Undecodable records do not consume the discovery sample budget.    *)
(* Discovery reads on until SCHEMA_SAMPLE_SIZE records have been decoded   *)
(* and observed or the cursor is exhausted: sample_count is the smaller of *)
(* SCHEMA_SAMPLE_SIZE and the number of decodable records, and the schema  *)
(* has the properties of the first SCHEMA_SAMPLE_SIZE decodable records.   *)
(* (Refuted under SpecDiscover: count is incremented for every entry read, *)
(* decoded or not.)                                                        *)
(***************************************************************************)
C19_UndecodableNotCounted ==
    \A r \in DOMAIN discovered :
        LET first == Take(Ascending(DecodableKeys(table)), SCHEMA_SAMPLE_SIZE)
        IN /\ discovered[r].sample_count = Len(first)
           /\ discovered[r].ok =>
                 \A i \in 1..Len(first) : \A P \in DOMAIN table.rows[first[i]].props :
                     PropCol(P) \in DOMAIN discovered[r].column_index

(***************************************************************************)
(* C20  Open-failure error value.  When the storage open fails,            *)
(* get_cached_engine returns the dedicated open-failure error, which       *)
(* carries the database path and the underlying cause                      *)
(* (ManifoldScannerError::DatabaseOpenError{path, source}), not the bare   *)
(* storage error.                                                          *)
(* (Refuted under SpecCache: the `?` on RedbEngine::open returns the       *)
(* engine's error as it is.)                                               *)
(***************************************************************************)
C20_OpenFailureErrorValue ==
    \A t \in Threads : \A i \in 1..Len(ret[t]) :
        (~ret[t][i].ok /\ ret[t][i].err \notin {LockError, Unwinding}) =>
            ret[t][i].err = DatabaseOpenError(ret[t][i].path, EngineError)

(***************************************************************************)
(* C21  Batch fullness.  Every call of scan_entity_batch / scan_edge_batch *)
(* returns at most BATCH_SIZE records, and fewer than BATCH_SIZE only if   *)
(* the cursor ran out of entries during the call (or the collection does   *)
(* not exist).  Records that fail to decode never shorten a batch: from a  *)
(* continuation key the collection holds (or from the start) the batch is  *)
(* the next BATCH_SIZE decodable records after the key, and from any key   *)
(* the batch is at least as long as it would be without the undecodable    *)
(* records.  (Checked under SpecBatch.)                                    *)
(***************************************************************************)
\* The collection without the records that fail to decode.
Strip(tbl) ==
    [ exists |-> tbl.exists,
      rows |-> [ k \in DecodableKeys(tbl) |-> tbl.rows[k] ] ]

\* The decodable keys after the continuation key, ascending.
DecodableAfter(tbl, start) ==
    Ascending({ k \in DecodableKeys(tbl) : start = None \/ k > start[1] })

C21_BatchFullness ==
    fetch.called =>
        /\ fetch.b.ok
        /\ Len(fetch.b.recs) <= BATCH_SIZE
        /\ Len(fetch.b.recs) < BATCH_SIZE => (fetch.b.eof \/ ~table.exists)
        /\ (fetch.start = None \/ fetch.start[1] \in DOMAIN table.rows) =>
              KeysOf(fetch.b.recs) = Take(DecodableAfter(table, fetch.start), BATCH_SIZE)
        /\ Len(fetch.b.recs) >=
              Len(ScanBatch(Strip(table), fetch.start, BATCH_SIZE).recs)

\* A full batch with an undecodable record between two of the records it returns.
C21_Witness ==
    /\ fetch.called
    /\ Len(fetch.b.recs) = BATCH_SIZE
    /\ \E i \in 1..(Len(fetch.b.recs) - 1) : \E k \in DOMAIN table.rows :
          /\ fetch.b.recs[i].key < k /\ k < fetch.b.recs[i + 1].key
          /\ ~table.rows[k].dec

(***************************************************************************)
(* C22  Returned continuation key.  The key scan_entity_batch /            *)
(* scan_edge_batch returns is None exactly when the batch it returns is    *)
(* empty, and otherwise is the storage key of the last record of the       *)
(* batch; it is never the key of a record that failed to decode.           *)
(* (Checked under SpecBatch.)                                              *)
(***************************************************************************)
C22_ReturnedKey ==
    fetch.called =>
        LET recs == fetch.b.recs
            key == fetch.b.last_key
        IN /\ (key = None) <=> (recs = <<>>)
           /\ recs # <<>> => key = Some(recs[Len(recs)].key)
           /\ key # None => key[1] \in DecodableKeys(table)

\* A batch that is not empty, fetched by a call that went on to read an
\* undecodable record after the last record it returns.
C22_Witness ==
    /\ fetch.called
    /\ fetch.b.recs # <<>>
    /\ fetch.b.eof
    /\ \E k \in DOMAIN table.rows : k > fetch.b.last_key[1] /\ ~table.rows[k].dec

(***************************************************************************)
(* C23  Exhausted is terminal.  Within one scan invocation, with produce   *)
(* called as the host calls it (one call after the other), the done flag   *)
(* once true stays true and from then on the continuation key does not     *)
(* change; init starts the scan with key None and not done; a key once set *)
(* is never None again; and the call that sets done is an Ok call with an  *)
(* empty output that leaves the continuation key as it was.  This holds    *)
(* also when other clients write to the collection.  (Checked under        *)
(* SpecLive.)                                                              *)
(***************************************************************************)
C23_ExhaustedTerminal ==
    [][ \A s \in DOMAIN phase :
          /\ (phase[s] = "bound" /\ phase'[s] = "ready") =>
                ~done'[s] /\ last_key'[s] = None
          /\ (phase[s] = "ready" /\ phase'[s] = "ready") =>
                /\ done[s] => (done'[s] /\ last_key'[s] = last_key[s])
                /\ last_key[s] # None => last_key'[s] # None
                /\ (~done[s] /\ done'[s]) =>
                      /\ last_key'[s] = last_key[s]
                      /\ lastCall'[s].res = "Ok"
                      /\ lastCall'[s].rows = <<>> ]_vars

\* A scan that streamed, was exhausted, and was called again after a record
\* with a key above its continuation key had been written.
C23_Witness ==
    \E s \in DOMAIN phase :
        /\ IsScan(s) /\ done[s] /\ lastCall[s].was_done
        /\ last_key[s] # None
        /\ \E k \in DecodableKeys(table) : k > last_key[s][1]

(***************************************************************************)
(* C24  Scan termination.  Over a collection of N records that nobody      *)
(* writes to, a scan whose host keeps calling produce and none of whose    *)
(* calls fails reaches done, and does so within ceil(N/BATCH_SIZE)+1       *)
(* calls: as long as it is neither done nor failed it has made at most     *)
(* ceil(N/BATCH_SIZE) calls, and the call that set done was at most the    *)
(* one after.  (Checked under SpecProgress.)                               *)
(***************************************************************************)
C24_ScanTermination ==
    /\ [](\A s \in DOMAIN phase :
            LET N == Cardinality(DOMAIN table.rows) IN
            (IsScan(s) /\ ~failed[s]) =>
                /\ ~done[s] => ncalls[s] <= CeilDiv(N, BATCH_SIZE)
                /\ (done[s] /\ ~lastCall[s].was_done) =>
                       ncalls[s] <= CeilDiv(N, BATCH_SIZE) + 1)
    /\ \A s \in {"s1"} :
         (phase[s] = "ready" /\ ~failed[s]) ~> (done[s] \/ failed[s])

\* The call that exhausted a scan of MaxKey records, made as call number
\* ceil(N/BATCH_SIZE)+1.
C24_Witness ==
    \E s \in DOMAIN phase :
        /\ IsScan(s) /\ done[s] /\ ~failed[s] /\ ~lastCall[s].was_done
        /\ DOMAIN table.rows = Keys
        /\ ncalls[s] = CeilDiv(MaxKey, BATCH_SIZE) + 1

(***************************************************************************)
(* C25  Strictly increasing keys.  With produce called sequentially on one *)
(* invocation, every record a call fetches or emits has a storage key      *)
(* strictly greater than the continuation key the call found, so the keys  *)
(* emitted over the whole scan are strictly increasing and no record is    *)
(* emitted twice, also when other clients insert or delete records between *)
(* the calls.  (Checked under SpecLive.)                                   *)
(***************************************************************************)
C25_StrictlyIncreasingKeys ==
    \A s \in DOMAIN phase :
        /\ \A i, j \in 1..Len(emitted[s]) : i < j => emitted[s][i] < emitted[s][j]
        /\ (lastCall[s].op = "func" /\ lastCall[s].start # None) =>
              /\ \A i \in 1..Len(lastCall[s].fetched) :
                    lastCall[s].fetched[i] > lastCall[s].start[1]
              /\ \A i \in 1..Len(lastCall[s].rows) :
                    lastCall[s].rows[i] > lastCall[s].start[1]
        /\ (IsScan(s) /\ last_key[s] # None) =>
              \A i \in 1..Len(emitted[s]) : emitted[s][i] <= last_key[s][1]

\* A second non-empty batch of a scan, delivered while the collection holds a
\* record that was inserted below the continuation key after the scan had passed.
C25_Witness ==
    \E s \in DOMAIN phase :
        /\ IsScan(s) /\ modified[s] /\ nbatches[s] >= 2
        /\ lastCall[s].op = "func" /\ lastCall[s].rows # <<>>
        /\ \E k \in DecodableKeys(table) :
              /\ k < lastCall[s].start[1]
              /\ \A i \in 1..Len(emitted[s]) : emitted[s][i] # k

(***************************************************************************)
(* C26  The schema is frozen at bind.  No produce call changes the bound   *)
(* column list or the name->index lookup.  A record a produce call reads   *)
(* that carries a property without a column in the bound schema is emitted *)
(* with that property left out: every cell the row writes is a column of   *)
(* the schema and none of them is the property's, and such a property is   *)
(* never the cause of an error (a projection error comes from a NUL byte   *)
(* in a value whose property has a column).  (Checked under Spec.)         *)
(***************************************************************************)
\* The properties of the record at key k that have no column in the lookup ci.
Unbound(tbl, k, ci) ==
    { P \in DOMAIN tbl.rows[k].props : PropCol(P) \notin DOMAIN ci }

\* A value of the record at key k whose property has a column renders to a
\* text with a NUL byte.
BoundNul(tbl, k, ci) ==
    \E P \in DOMAIN tbl.rows[k].props \ Unbound(tbl, k, ci) :
        CStringNewFails(value_to_duckdb_string(tbl.rows[k].props[P]))

C26_SchemaFrozen ==
    /\ [][ \A s \in DOMAIN phase :
             (phase[s] = "ready" /\ phase'[s] = "ready") =>
                 bindData'[s] = bindData[s] ]_vars
    /\ [](\A s \in DOMAIN phase :
            (IsScan(s) /\ lastCall[s].op = "func" /\ lastCall[s].scanned) =>
                LET ci == bindData[s].column_index
                    columns == 0..(Len(bindData[s].columns) - 1)
                    fetched == lastCall[s].fetched
                IN /\ { ci[n] : n \in DOMAIN ci } = columns
                   /\ lastCall[s].res = "Err" =>
                         \/ lastCall[s].fault # "none"
                         \/ \E i \in 1..Len(fetched) : BoundNul(table, fetched[i], ci)
                   /\ lastCall[s].res = "Ok" =>
                         /\ lastCall[s].rows = fetched
                         /\ \A i \in 1..Len(fetched) :
                               /\ DOMAIN lastCall[s].cells[i] \subseteq columns
                               /\ Cardinality(DOMAIN lastCall[s].cells[i]) =
                                     Len(FixedNames(vtab)) +
                                     Cardinality(DOMAIN table.rows[fetched[i]].props
                                                 \ Unbound(table, fetched[i], ci)))

\* A produce call that emitted a row for a record beyond the discovery sample
\* whose only property, a string with a NUL byte, has no column in the schema.
C26_Witness ==
    \E s \in DOMAIN phase :
        /\ IsScan(s) /\ lastCall[s].op = "func" /\ lastCall[s].res = "Ok"
        /\ \E i \in 1..Len(lastCall[s].rows) :
              LET k == lastCall[s].rows[i] IN
              /\ table.rows[k] = WithNul
              /\ Unbound(table, k, bindData[s].column_index) = {NameA}
              /\ DOMAIN lastCall[s].cells[i] # {}

(***************************************************************************)
(* C27  Discovery observes exactly the sampled prefix.  The schema a       *)
(* successful discovery publishes has the column prop_P if and only if     *)
(* some record that decodes, among the first SCHEMA_SAMPLE_SIZE records in *)
(* cursor order, has a property named P; the lookup maps each column name  *)
(* to its position in the column list (counted from 0) and nothing else;   *)
(* and the column names are pairwise distinct.  (Checked under             *)
(* SpecDiscover.)                                                          *)
(***************************************************************************)
C27_SampledPrefix ==
    \A r \in DOMAIN discovered :
        discovered[r].ok =>
            LET columns == discovered[r].columns
                ci == discovered[r].column_index
                sampled == UNION { DOMAIN table.rows[k].props : k \in SampledKeys(table) }
            IN /\ \A P \in PropNames :
                     (\E i \in 1..Len(columns) : columns[i].name = PropCol(P))
                         <=> P \in sampled
               /\ \A i \in 1..Len(columns) :
                     columns[i].name.pre = "prop_" => columns[i].name.nm \in PropNames
               /\ DOMAIN ci = { columns[i].name : i \in 1..Len(columns) }
               /\ \A i \in 1..Len(columns) : ci[columns[i].name] = i - 1
               /\ \A i, j \in 1..Len(columns) :
                     i # j => columns[i].name # columns[j].name

\* A discovery over MaxKey records: one of the sampled records does not decode,
\* another gives the schema a property column, and a record beyond the sample
\* has a property the schema lacks.
C27_Witness ==
    \E r \in DOMAIN discovered :
        /\ discovered[r].ok
        /\ DOMAIN table.rows = Keys
        /\ \E k \in 1..SCHEMA_SAMPLE_SIZE : ~table.rows[k].dec
        /\ Len(discovered[r].columns) > Len(FixedNames(vtab))
        /\ \E P \in DOMAIN table.rows[MaxKey].props :
              PropCol(P) \notin DOMAIN discovered[r].column_index

(***************************************************************************)
(* C28  An open failure is surfaced at bind.  When the storage of the path *)
(* cannot be opened (the path is not in the cache and RedbEngine::open     *)
(* fails), bind returns an error; and a bind that returned the open error  *)
(* began no read transaction and read no record (no discovery ran),        *)
(* registered no result column, produced no bind data, and left the        *)
(* invocation without a scan state: init and produce are not reached.      *)
(* (Checked under Spec.)                                                   *)
(***************************************************************************)
C28_OpenFailureAtBind ==
    \A s \in DOMAIN phase :
        /\ (lastCall[s].op = "bind" /\ lastCall[s].fault = "open"
                /\ ScanPath \notin DOMAIN cache) =>
              lastCall[s].res = "Err" /\ lastCall[s].msg = "open"
        /\ (lastCall[s].op = "bind" /\ lastCall[s].msg = "open") =>
              /\ lastCall[s].res = "Err"
              /\ lastCall[s].acquired
              /\ lastCall[s].txs = 0
              /\ lastCall[s].reads = 0
              /\ bindData[s] = NoBind
              /\ bindData[s].registered = <<>>
              /\ phase[s] = "unbound"
              /\ ~done[s] /\ last_key[s] = None /\ ncalls[s] = 0
              /\ ScanPath \notin DOMAIN cache

\* A bind of manifold_edges over a collection with records failed in the open.
C28_Witness ==
    \E s \in DOMAIN phase :
        /\ lastCall[s].op = "bind" /\ lastCall[s].msg = "open"
        /\ vtab = "edges"
        /\ table.exists /\ DecodableKeys(table) # {}

(***************************************************************************)
(* C29  A reported fault ends the scan and is not retried.  A produce call *)
(* attempts at most one batch fetch; and once a produce call has reported  *)
(* an error for a caught panic or a storage fault, no later produce call   *)
(* on that invocation emits records.                                       *)
(* (Refuted under Spec: an error return leaves done unset and nothing else *)
(* marks the invocation as failed, so the next produce call fetches and    *)
(* emits again.)                                                           *)
(***************************************************************************)
C29_FaultEndsScan ==
    /\ [](\A s \in DOMAIN phase : lastCall[s].txs <= 1)
    /\ [][ \A s \in DOMAIN phase :
             ( /\ phase[s] = "ready" /\ ncalls'[s] = ncalls[s] + 1
               /\ lastCall[s].op = "func" /\ lastCall[s].res = "Err"
               /\ lastCall[s].fault \in {"storage", "panic_scan", "panic_populate"} ) =>
                 /\ lastCall'[s].rows = <<>>
                 /\ emitted'[s] = emitted[s] ]_vars

(***************************************************************************)
(* C30  The entity and edge projectors agree.  For every Value variant     *)
(* (null, boolean, integer, float, string, byte sequence, array, dense     *)
(* vector, sparse vector, multi-vector) value_to_duckdb_string of the      *)
(* entity scanner and value_to_duckdb_string of the edge scanner give the  *)
(* same text for the same value.                                           *)
(* (Refuted under SpecRender: a byte sequence is a JSON string of its      *)
(* base64 text in entities.rs and a JSON array of numbers in edges.rs.)    *)
(***************************************************************************)
C30_ProjectorsAgree ==
    rendered.called => rendered.entities = rendered.edges

(***************************************************************************)
(* C31  Explicit null versus absent property.  In a row a produce call     *)
(* emits, the cell of prop_P is written with the empty text when the       *)
(* record has P with the Null value, and is not written at all when the    *)
(* record has no property P; and a property that discovery observed only   *)
(* with Null values has its column prop_P like any other.  (Checked under  *)
(* SpecNull.)                                                              *)
(***************************************************************************)
C31_NullVersusAbsent ==
    \A s \in DOMAIN phase :
        /\ phase[s] \in {"bound", "ready"} =>
              \A k \in SampledKeys(table) : \A P \in DOMAIN table.rows[k].props :
                  /\ PropCol(P) \in DOMAIN bindData[s].column_index
                  /\ \E i \in 1..Len(bindData[s].columns) :
                        bindData[s].columns[i] = Column(PropCol(P), TRUE)
        /\ (IsScan(s) /\ lastCall[s].op = "func" /\ lastCall[s].res = "Ok") =>
              \A i \in 1..Len(lastCall[s].rows) : \A P \in PropNames :
                  LET props == table.rows[lastCall[s].rows[i]].props
                      ci == bindData[s].column_index
                      cells == lastCall[s].cells[i]
                  IN PropCol(P) \in DOMAIN ci =>
                        /\ (P \in DOMAIN props /\ props[P].tag = "Null") =>
                              /\ ci[PropCol(P)] \in DOMAIN cells
                              /\ cells[ci[PropCol(P)]] = <<>>
                        /\ P \notin DOMAIN props => ci[PropCol(P)] \notin DOMAIN cells

\* A batch of two rows under a schema whose column prop_a comes from Null
\* values only: one record has "a" as Null, the other has no "a".
C31_Witness ==
    \E s \in DOMAIN phase :
        /\ IsScan(s) /\ lastCall[s].op = "func" /\ lastCall[s].res = "Ok"
        /\ \A k \in DOMAIN table.rows : table.rows[k] \in {Plain, WithNull}
        /\ PropCol(NameA) \in DOMAIN bindData[s].column_index
        /\ \E i, j \in 1..Len(lastCall[s].rows) :
              /\ table.rows[lastCall[s].rows[i]] = WithNull
              /\ table.rows[lastCall[s].rows[j]] = Plain
              /\ bindData[s].column_index[PropCol(NameA)] \in DOMAIN lastCall[s].cells[i]
              /\ bindData[s].column_index[PropCol(NameA)]
                     \notin DOMAIN lastCall[s].cells[j]

\* The column type the mapping of schema.rs is stated to give each variant.
C32_TypeOfVariant ==
    [ Null |-> "Varchar", Bool |-> "Boolean", Int |-> "Bigint",
      Float |-> "Double", String |-> "Varchar", Bytes |-> "Blob",
      Array |-> "Varchar", Vector |-> "Varchar", SparseVector |-> "Varchar",
      MultiVector |-> "Varchar" ]

\* The inferred column types.
C32_ColumnTypes == {"Varchar", "Boolean", "Bigint", "Double", "Blob"}

(***************************************************************************)
(* C32  Observation bookkeeping.  After any sequence of observe_entity /   *)
(* observe_edge calls on one discovery object, sample_count is the number  *)
(* of calls made; the names recorded are the names some observed map       *)
(* carried; and for every recorded name the list of column types holds no  *)
(* type twice and holds a type exactly when some observed map carried the  *)
(* name with a value of a variant mapping to it: Bool to Boolean, Int to   *)
(* Bigint, Float to Double, String to Varchar, Bytes to Blob, and Null,    *)
(* Array, Vector, SparseVector and MultiVector to Varchar.                 *)
(* (Checked under SpecSchema.)                                             *)
(***************************************************************************)
C32_ObservationBookkeeping ==
    /\ discovery.sample_count = Len(observed)
    /\ DOMAIN discovery.property_types = ObservedNames(observed)
    /\ \A name \in DOMAIN discovery.property_types :
          LET types == discovery.property_types[name]
          IN /\ \A i, j \in 1..Len(types) : types[i] = types[j] => i = j
             /\ \A t \in C32_ColumnTypes :
                   Contains(types, t) <=>
                       \E k \in 1..Len(observed) :
                          /\ name \in DOMAIN observed[k]
                          /\ C32_TypeOfVariant[observed[k][name].tag] = t

\* Three calls were made; some name was carried twice with values mapping to
\* one type (by two different variants) and is recorded with that type once,
\* and some name is recorded with more than one type.
C32_Witness ==
    /\ Len(observed) = 3
    /\ discovery.sample_count = 3
    /\ \E i, j \in 1..Len(observed) : \E name \in DOMAIN observed[i] \cap DOMAIN observed[j] :
          /\ i # j
          /\ observed[i][name].tag # observed[j][name].tag
          /\ C32_TypeOfVariant[observed[i][name].tag] = C32_TypeOfVariant[observed[j][name].tag]
    /\ \E name \in DOMAIN discovery.property_types :
          Len(discovery.property_types[name]) > 1

=============================================================================
